---- MODULE Spec2Model ----
(***************************************************************************)
(* Function-call orchestration of the Slack bot: the Slack event path      *)
(* (processMessageAndGenerateResponse, processFunctionCalls,               *)
(* shouldContinueWorkflow, generateFollowUpResponse), the HTTP API path    *)
(* (processApiMessage, processMessageAndGenerateApiResponse) and the       *)
(* dispatcher (handleFunctionCall, handleSlackFunctionCall); further the   *)
(* Slack event handlers (app.message, app_mention), the rate limiter of    *)
(* the endpoint (checkRateLimit), the Slack API wrapper (callSlackApi),    *)
(* the history formatter (formatConversationHistory), the Markdown         *)
(* conversion (convertMarkdownToSlackFormatting), the conversation context *)
(* store, the runs of one thread interleaved at their await points and the *)
(* action createChannelAndInviteUsers, each under a specification of its   *)
(* own over the same variables.                                            *)
(***************************************************************************)
EXTENDS Integers, Sequences, FiniteSets, TLC

VARIABLES
    pc,               \* position of the run
    path,             \* "slack" (event handlers) or "api" (HTTP endpoint)
    history,          \* conversationHistory handed to processFunctionCalls
    aiContent,        \* content of the first model response
    batch,            \* functionCalls of the response being processed
    idx,              \* number of calls of batch the for loop has completed
    pending,          \* the call whose handler is awaited, or NoCall
    functionResults,  \* functionResults of the current processFunctionCalls frame
    results,          \* formatted results, all frames in push order
    dispatched,       \* ids of the calls handed to handleFunctionCall, in order
    threw,            \* per dispatched call: the Slack call behind its handler threw
    decision,         \* last answer of shouldContinueWorkflow, "none" before
    issued,           \* ids of the calls the model returned, in order
    round,            \* number of model responses that carried the current batch
    followUps,        \* follow-up model calls issued by generateFollowUpResponse
    offered,          \* names of the functions offered in the latest model call
    providerCalls,    \* invocations of aiClient.generateResponse
    providerFailures, \* invocations of aiClient.generateResponse that threw
    failedRound,      \* 0, or the number of the round whose model call threw
    topLevelErrors,   \* error messages / HTTP 500 answers sent to the caller
    reply,            \* final reply: a sequence of paragraphs
    apiResponse,      \* the HTTP answer
    call,             \* direct dispatcher call: input and returned value
    invocation,       \* handler invocation: the call's arguments and what each parameter received
    botUserId,        \* the bot's user id once known, "" before
    posted,           \* number of messages posted in the workspace
    inbox,            \* events Slack has yet to deliver to the app
    runs,             \* invocations of processMessageAndGenerateResponse, in order
    thinking,         \* number of "thinking" messages the runs have sent
    awaiting,         \* runs that sent their thinking message and go on from there
    reference,        \* the Slack run an API request is compared with
    now,              \* Date.now(), in units of 30 seconds
    enabled,          \* env.ENABLE_API_ENDPOINT
    rateLimitMap,     \* per client IP: count and resetTime, or NoRateLimit
    handled,          \* number of requests processApiMessage was called with
    request,          \* the request being answered
    log,              \* the requests that reached checkRateLimit, in order
    slackApi,         \* one call of callSlackApi: its attempts and its outcome
    formatting,       \* one call of formatConversationHistory: input and output
    markdown,         \* one text, converted once and twice
    contexts,         \* the context store: per thread key a conversation or NoContext
    clock,            \* the time the store reads
    evictedKeys,      \* thread keys evicted and not created again since
    thread,           \* the messages of one thread's conversation, or NoThread
    flow,             \* per run on that thread: its stage, text and the history it sent
    composite         \* one call of createChannelAndInviteUsers

\* the variables of one orchestration run
runVars == << path, history, aiContent, batch, idx, pending, functionResults,
              results, dispatched, threw, decision, issued, round, followUps,
              offered, providerCalls, providerFailures, failedRound,
              topLevelErrors, reply, apiResponse, call >>

\* the variables of the components checked on their own
argVars == << invocation >>

eventVars == << botUserId, posted, inbox, runs, thinking, awaiting >>

pairVars == << reference >>

apiVars == << now, enabled, rateLimitMap, handled, request, log >>

slackApiVars == << slackApi >>

formatVars == << formatting >>

markdownVars == << markdown >>

\* the variables of the functions and stores checked on their own
contextVars == << contexts, clock, evictedKeys >>

threadVars == << thread, flow >>

compositeVars == << composite >>

unitVars == << markdownVars, contextVars, threadVars, compositeVars >>

extVars == << argVars, eventVars, pairVars, apiVars, slackApiVars, formatVars,
             unitVars >>

vars == << pc, runVars, extVars >>

----------------------------------------------------------------------------
(* Bounds of the exploration *)

\* most function calls in one model response
MaxCalls == 2
\* most follow-up model calls of one run
MaxFollowUps == 2
\* most calls dispatched in one run
MaxDispatched == 3
\* most follow-up model calls of one run of the single-call workflow
DeepFollowUps == 5

\* follow-up round cap the specification requires
FollowUpRoundCap == 3

----------------------------------------------------------------------------
(* Values *)

NoCall == [id |-> << 0, 0 >>, name |-> "", args |-> "none"]
NoResult == [kind |-> "none", success |-> FALSE, message |-> << >>, error |-> << >>]
NoApiResponse == [status |-> 0, success |-> FALSE, code |-> "", results |-> << >>, response |-> ""]

\* "I don't have a response at this time."
PlaceholderContent == "I don't have a response at this time."

Contents == { "", PlaceholderContent, "All set." }

\* A user text is represented by the set of phrases of the code's phrase
\* lists that it contains as substrings.
TextCreate == { "create", "channel" }
TextCreateInvite == { "create", "channel", "and", "invite" }
TextSendThen == { "send", "then" }
TextSummary == { "summary", "meeting" }
TextHello == { }
Texts == { TextCreate, TextCreateInvite, TextSendThen, TextSummary, TextHello }

Includes(text, phrase) == phrase \in text

SystemMessage == [role |-> "system", text |-> {}]
UserMessage(text) == [role |-> "user", text |-> text]
AssistantMessage == [role |-> "assistant", text |-> {}]

Last(s) == s[Len(s)]

Range(s) == { s[i] : i \in 1..Len(s) }

\* workflows.find(workflow => workflow.first === name), searching from index
\* i: the index of the first such row, 0 if there is none
RECURSIVE FindWorkflow(_, _, _)
FindWorkflow(workflows, name, i) ==
    IF i > Len(workflows) THEN 0
    ELSE IF workflows[i].first = name THEN i
    ELSE FindWorkflow(workflows, name, i + 1)

\* Array.prototype.slice(0, n)
Slice(s, n) == SubSeq(s, 1, IF Len(s) < n THEN Len(s) ELSE n)

----------------------------------------------------------------------------
(* Function registry *)

SLACK_FUNCTIONS ==
    << "createChannel", "inviteToChannel", "archiveChannel", "sendMessage",
       "sendDirectMessage", "uploadFile", "addReaction", "addReminder",
       "createChannelAndInviteUsers", "sendMessageToMultipleChannels",
       "getChannelMembers", "listUsers", "getUserInfo", "lookupUserByEmail",
       "adminInviteUsersToChannel", "inviteUserToWorkspace",
       "assignUserToWorkspace", "searchChannels", "adminArchiveChannel",
       "unarchiveChannel", "searchMessages", "addBookmark", "listBookmarks",
       "sendEphemeralMessage", "scheduleMessage", "getMessagePermalink" >>

\* the catalog handed to the model
AVAILABLE_FUNCTIONS == SLACK_FUNCTIONS

\* functions the module slack-actions exports
ExportedActions == Range(SLACK_FUNCTIONS)

\* function-valued properties every plain object inherits from Object.prototype
InheritedFunctions == { "toString", "constructor", "valueOf" }

----------------------------------------------------------------------------
(* Action handlers and dispatcher *)

Failure(err) == [kind |-> "result", success |-> FALSE, message |-> << >>, error |-> err]
Success(msg) == [kind |-> "result", success |-> TRUE, message |-> msg, error |-> << >>]

\* error.message of the error the Slack client throws
SlackError(name) ==
    IF name = "sendMessage" THEN << "channel_not_found" >>
    ELSE IF name = "createChannel" THEN << "name_taken" >>
    ELSE << "not_in_channel" >>

\* the message field of a handler's success payload
ActionMessage(name) ==
    IF name = "createChannel" THEN << "Successfully created public channel #launch-prep" >>
    ELSE IF name = "inviteToChannel" THEN << "Successfully invited 2 user(s) to channel" >>
    ELSE IF name = "sendMessage" THEN << "Successfully sent message to channel" >>
    ELSE << "Successfully completed ", name >>

\* an action that reports success although the Slack call threw
SlackActionReportsSuccess(name, slackOk) == Success(ActionMessage(name))

\* an exported action: try { await features...; return {success: true, ...} }
\* catch { return {success: false, error} }
SlackAction(name, slackOk) ==
    IF slackOk THEN Success(ActionMessage(name)) ELSE Failure(SlackError(name))

TypeErrorMessage == << "Cannot convert undefined or null to object" >>

\* a function inherited from Object.prototype, called with this = undefined
InheritedCall(name) ==
    IF name = "toString"
    THEN [kind |-> "string", success |-> FALSE, message |-> << >>, error |-> << >>]
    ELSE IF name = "constructor"
    THEN [kind |-> "object", success |-> FALSE, message |-> << >>, error |-> << >>]
    ELSE Failure(TypeErrorMessage)

\* (slackActions as any)[functionCall.name] is a function
IsActionFunction(name) == name \in ExportedActions \cup InheritedFunctions

HandleSlackFunctionCall(c, slackOk) ==
    IF ~IsActionFunction(c.name)
    THEN Failure(<< "Unknown Slack function: ", c.name >>)
    ELSE IF c.args = "null"
    THEN Failure(TypeErrorMessage)
    ELSE IF c.name \in ExportedActions
    THEN SlackAction(c.name, slackOk)
    ELSE InheritedCall(c.name)

\* the Slack client call inside the handler of c is reached and throws
SlackCallThrows(c, slackOk) ==
    c.name \in Range(AVAILABLE_FUNCTIONS) /\ c.name \in ExportedActions /\ ~slackOk

\* the dispatcher: registry lookup, then the registered handler
HandleFunctionCall(c, slackOk) ==
    IF c.name \notin Range(AVAILABLE_FUNCTIONS)
    THEN Failure(<< "Unknown function: ", c.name >>)
    ELSE HandleSlackFunctionCall(c, slackOk)

\* "Function <name> result: <JSON>"
FormatFunctionCallResult(name, result) ==
    [kind |-> "formatted", name |-> name, result |-> result]

----------------------------------------------------------------------------
(* Workflow continuation *)

\* the workflow table without the createChannel rows
multiStepWorkflowsWithoutCreateChannel ==
    << [first |-> "searchChannels", next |-> "sendMessage"],
       [first |-> "inviteToChannel", next |-> "sendMessage"],
       [first |-> "createChannelAndInviteUsers", next |-> "sendMessage"],
       [first |-> "searchChannels", next |-> "null"],
       [first |-> "inviteToChannel", next |-> "null"],
       [first |-> "createChannelAndInviteUsers", next |-> "null"] >>

multiStepWorkflows ==
    << [first |-> "searchChannels", next |-> "sendMessage"],
       [first |-> "createChannel", next |-> "inviteToChannel"],
       [first |-> "createChannel", next |-> "sendMessage"],
       [first |-> "inviteToChannel", next |-> "sendMessage"],
       [first |-> "createChannelAndInviteUsers", next |-> "sendMessage"],
       [first |-> "searchChannels", next |-> "null"],
       [first |-> "createChannel", next |-> "null"],
       [first |-> "inviteToChannel", next |-> "null"],
       [first |-> "createChannelAndInviteUsers", next |-> "null"] >>

multiStepPhrases ==
    { "then", "after", "next", "finally", "and", "post", "send", "share",
      "create", "invite", "summary", "summarize", "channel", "meeting",
      "welcome" }

\* the text of the last user message of the history, "" (no phrase) if none
LastUserMessage(hist) ==
    LET userMessages == SelectSeq(hist, LAMBDA m : m.role = "user")
    IN IF Len(userMessages) > 0 THEN Last(userMessages).text ELSE {}

\* the analysis of the user text for workflows without a specific next step
TextImpliesMultiStep(text) ==
    \/ Includes(text, "meeting") /\ Includes(text, "summary")
    \/ /\ Includes(text, "create")
       /\ Includes(text, "channel")
       /\ (Includes(text, "invite") \/ Includes(text, "add"))
    \/ /\ Includes(text, "create")
       /\ Includes(text, "channel")
       /\ (Includes(text, "send") \/ Includes(text, "message") \/ Includes(text, "welcome"))
    \/ \E phrase \in multiStepPhrases : Includes(text, phrase)

\* a predicate that analyses the user text when no workflow row matches
shouldContinueWorkflowTextFirst(fResults, hist) ==
    IF Len(fResults) = 0 THEN FALSE
    ELSE LET lastFunctionCall == Last(fResults)
             m == FindWorkflow(multiStepWorkflows, lastFunctionCall.name, 1)
         IN IF m # 0 /\ multiStepWorkflows[m].next # "null" THEN TRUE
            ELSE TextImpliesMultiStep(LastUserMessage(hist))

shouldContinueWorkflow(fResults, hist) ==
    IF Len(fResults) = 0 THEN FALSE
    ELSE LET lastFunctionCall == Last(fResults)
             m == FindWorkflow(multiStepWorkflows, lastFunctionCall.name, 1)
         IN IF m = 0 THEN FALSE
            ELSE IF multiStepWorkflows[m].next # "null" THEN TRUE
            ELSE TextImpliesMultiStep(LastUserMessage(hist))

\* AVAILABLE_FUNCTIONS.filter(fn => fn.name is one of names)
FilterFunctions(names) == SelectSeq(AVAILABLE_FUNCTIONS, LAMBDA n : n \in names)

\* a selection that skips the filter on the first function name
relevantFunctionsUnfiltered(fResults) == Slice(AVAILABLE_FUNCTIONS, 3)

\* the functions generateFollowUpResponse hands to the model
relevantFunctions(fResults) ==
    LET chosen ==
            IF Len(fResults) = 0 THEN AVAILABLE_FUNCTIONS
            ELSE LET firstFunctionName == fResults[1].name
                 IN IF firstFunctionName = "searchChannels"
                    THEN FilterFunctions({ "sendMessage" })
                    ELSE IF firstFunctionName = "createChannel"
                    THEN FilterFunctions({ "inviteToChannel", "sendMessage" })
                    ELSE IF firstFunctionName = "inviteToChannel"
                    THEN FilterFunctions({ "sendMessage" })
                    ELSE IF firstFunctionName = "createChannelAndInviteUsers"
                    THEN FilterFunctions({ "sendMessage" })
                    ELSE AVAILABLE_FUNCTIONS
    IN Slice(chosen, 3)

----------------------------------------------------------------------------
(* The reply of the Slack path *)

\* one result of functionResults.map(...): the paragraph, << >> for null
SuccessMessageOf(entry) ==
    IF entry.kind # "formatted" THEN << >>
    ELSE IF entry.result.kind = "result" /\ entry.result.message # << >>
    THEN entry.result.message
    ELSE IF entry.result.kind = "result" /\ entry.result.success
    THEN << "I've successfully completed the ", entry.name, " action." >>
    ELSE << >>

RECURSIVE SuccessMessages(_)
SuccessMessages(res) ==
    IF res = << >> THEN << >>
    ELSE LET m == SuccessMessageOf(res[1])
         IN (IF m = << >> THEN << >> ELSE << m >>) \o SuccessMessages(Tail(res))

\* a reply that is only filled in from function results
FinalResponseWithoutElse(content, hadCalls, res) ==
    IF ~hadCalls \/ Len(res) = 0 THEN << << "" >> >>
    ELSE LET successMessages == SuccessMessages(res)
         IN IF Len(successMessages) = 0 THEN << << content >> >>
            ELSE successMessages

\* finalResponse of processMessageAndGenerateResponse, as a list of paragraphs
FinalResponse(content, hadCalls, res) ==
    IF ~hadCalls \/ Len(res) = 0 THEN << << content >> >>
    ELSE IF \E i \in 1..Len(res) : res[i].kind = "thrown" THEN << << content >> >>
    ELSE LET successMessages == SuccessMessages(res)
         IN IF Len(successMessages) = 0 THEN << << content >> >>
            ELSE IF content # "" /\ content # PlaceholderContent
            THEN successMessages \o << << content >> >>
            ELSE successMessages

----------------------------------------------------------------------------
(* The run *)

Min(a, b) == IF a < b THEN a ELSE b

\* function names the model answers with
RunNames == { "createChannel", "inviteToChannel", "sendMessage", "deleteWorkspace" }
DeepNames == { "createChannel" }

\* the function calls of one model response
Calls(r, ns) == [i \in 1..Len(ns) |-> [id |-> << r, i >>, name |-> ns[i], args |-> "object"]]

Ids(calls) == [i \in 1..Len(calls) |-> calls[i].id]

\* the responses a model may give: up to maxCalls calls over names
Responses(r, names, maxCalls) ==
    { Calls(r, ns) : ns \in UNION { [1..n -> names] : n \in 0..maxCalls } }

ApiOk(content, fResults) ==
    [status |-> 200, success |-> TRUE, code |-> "", results |-> fResults, response |-> content]

ApiInternalError ==
    [status |-> 500, success |-> FALSE, code |-> "internal_error", results |-> << >>, response |-> ""]

\* a recursion that is handed the calls already processed as well
FollowUpBatchWithPrevious(prev, followUpCalls) == prev \o followUpCalls

\* the batch the recursive processFunctionCalls is called with
FollowUpBatch(prev, followUpCalls) == followUpCalls

NoInvocation == [name |-> "", arguments |-> << >>, received |-> << >>]

NoReference == [text |-> {}, content |-> "", first |-> << >>, sequence |-> << >>]

IPs == { "10.0.0.1", "10.0.0.2" }

NoRateLimit == [count |-> 0, resetTime |-> 0]

NoRequest == [ip |-> "", key |-> "", hasMessage |-> FALSE, passedBefore |-> 0, reached |-> FALSE]

ApiIdle ==
    /\ now = 1
    /\ enabled = TRUE
    /\ rateLimitMap = [ip \in IPs |-> NoRateLimit]
    /\ handled = 0
    /\ request = NoRequest
    /\ log = << >>

NoError == [class |-> "", code |-> "", dataError |-> "", retryAfterHeader |-> ""]

NoSlackApiCall ==
    [method |-> "", useUserToken |-> FALSE, attempts |-> << >>,
     firstError |-> NoError, retryAfter |-> 0, waited |-> 0, token |-> "",
     webApiError |-> NoError, returned |-> "", thrown |-> NoError]

NoFormatting ==
    [messages |-> << >>, modelId |-> << >>, output |-> << >>,
     after |-> << >>, again |-> << >>]

NoMarkdown == [content |-> << >>, once |-> << >>, twice |-> << >>]

\* the functions and stores checked on their own are at rest
\* configured capacity of the context store
MaxContexts == 2

\* most messages appended to one conversation
MaxTurns == 1

ThreadKeys == 1..(MaxContexts + 1)

NoContext == [messages |-> << >>, lastActivityAt |-> 0]

ContextsIdle ==
    /\ contexts = [threadKey \in ThreadKeys |-> NoContext]
    /\ clock = 1
    /\ evictedKeys = {}

\* most runs on one thread
MaxRuns == 2

RunIds == 1..MaxRuns

NoThread == << >>

NoFlow == [stage |-> "idle", text |-> "", sent |-> << >>]

ThreadIdle ==
    /\ thread = NoThread
    /\ flow = [r \in RunIds |-> NoFlow]

NoComposite ==
    [name |-> "", userIds |-> {}, isPrivate |-> FALSE, createThrows |-> FALSE,
     inviteThrows |-> FALSE, createResult |-> [success |-> FALSE],
     inviteResult |-> [success |-> FALSE], invitations |-> 0,
     returned |-> [success |-> FALSE]]

UnitIdle ==
    /\ markdown = NoMarkdown
    /\ ContextsIdle
    /\ ThreadIdle
    /\ composite = NoComposite

\* the components checked on their own are at rest
ExtIdle ==
    /\ invocation = NoInvocation
    /\ botUserId = ""
    /\ posted = 0
    /\ inbox = {}
    /\ runs = << >>
    /\ thinking = 0
    /\ awaiting = {}
    /\ reference = NoReference
    /\ ApiIdle
    /\ slackApi = NoSlackApiCall
    /\ formatting = NoFormatting
    /\ UnitIdle

Init ==
    /\ pc = "idle"
    /\ path = "none"
    /\ history = << >>
    /\ aiContent = ""
    /\ batch = << >>
    /\ idx = 0
    /\ pending = NoCall
    /\ functionResults = << >>
    /\ results = << >>
    /\ dispatched = << >>
    /\ threw = << >>
    /\ decision = "none"
    /\ issued = << >>
    /\ round = 0
    /\ followUps = 0
    /\ offered = << >>
    /\ providerCalls = 0
    /\ providerFailures = 0
    /\ failedRound = 0
    /\ topLevelErrors = 0
    /\ reply = << >>
    /\ apiResponse = NoApiResponse
    /\ call = [input |-> NoCall, result |-> NoResult]
    /\ ExtIdle

\* app.message / app_mention / processApiMessage up to the first
\* aiClient.generateResponse(messageText, minimalHistory, AVAILABLE_FUNCTIONS)
ReceiveMessage(p, text) ==
    /\ pc = "idle"
    /\ pc' = "awaitModel"
    /\ path' = p
    /\ history' = << SystemMessage, UserMessage(text) >>
    /\ offered' = AVAILABLE_FUNCTIONS
    /\ providerCalls' = providerCalls + 1
    /\ UNCHANGED << aiContent, batch, idx, pending, functionResults, results,
                    dispatched, threw, decision, issued, round, followUps,
                    providerFailures, failedRound, topLevelErrors, reply,
                    apiResponse, call >>
    /\ UNCHANGED extVars

\* the first model response arrives
ModelResponds(content, calls) ==
    /\ pc = "awaitModel"
    /\ aiContent' = content
    /\ issued' = issued \o Ids(calls)
    /\ round' = 1
    /\ IF Len(calls) > 0
       THEN /\ pc' = "dispatch"
            /\ batch' = calls
            /\ idx' = 0
            /\ UNCHANGED << reply, apiResponse >>
       ELSE /\ pc' = "done"
            /\ UNCHANGED << batch, idx >>
            /\ IF path = "slack"
               THEN /\ reply' = FinalResponse(content, FALSE, << >>)
                    /\ UNCHANGED apiResponse
               ELSE /\ apiResponse' = ApiOk(content, << >>)
                    /\ UNCHANGED reply
    /\ UNCHANGED << path, history, pending, functionResults, results, dispatched,
                    threw, decision, followUps, offered, providerCalls,
                    providerFailures, failedRound, topLevelErrors, call >>
    /\ UNCHANGED extVars

\* the first aiClient.generateResponse throws: the catch of
\* processMessageAndGenerateResponse sends one error message, the catch of
\* processApiMessage answers 500
ModelFails ==
    /\ pc = "awaitModel"
    /\ pc' = "error"
    /\ providerFailures' = providerFailures + 1
    /\ failedRound' = 1
    /\ topLevelErrors' = topLevelErrors + 1
    /\ IF path = "api" THEN apiResponse' = ApiInternalError ELSE UNCHANGED apiResponse
    /\ UNCHANGED << path, history, aiContent, batch, idx, pending, functionResults,
                    results, dispatched, threw, decision, issued, round,
                    followUps, offered, providerCalls, reply, call >>
    /\ UNCHANGED extVars

\* for (const functionCall of functionCalls): await handleFunctionCall(functionCall)
StartCall ==
    /\ pc = "dispatch"
    /\ pending = NoCall
    /\ idx < Len(batch)
    /\ pending' = batch[idx + 1]
    /\ dispatched' = Append(dispatched, batch[idx + 1].id)
    /\ UNCHANGED << pc, path, history, aiContent, batch, idx, functionResults,
                    results, threw, decision, issued, round, followUps, offered,
                    providerCalls, providerFailures, failedRound, topLevelErrors,
                    reply, apiResponse, call >>
    /\ UNCHANGED extVars

\* a loop that breaks at the first failed call
FinishCallAbortOnFailure(slackOk) ==
    /\ pc = "dispatch"
    /\ pending # NoCall
    /\ LET result == HandleFunctionCall(pending, slackOk)
       IN /\ functionResults' = Append(functionResults, [name |-> pending.name, result |-> result])
          /\ results' = IF path = "slack"
                        THEN Append(results, FormatFunctionCallResult(pending.name, result))
                        ELSE results
          /\ idx' = IF result.success THEN idx + 1 ELSE Len(batch)
    /\ threw' = Append(threw, SlackCallThrows(pending, slackOk))
    /\ pending' = NoCall
    /\ UNCHANGED << pc, path, history, aiContent, batch, dispatched, decision,
                    issued, round, followUps, offered, providerCalls,
                    providerFailures, failedRound, topLevelErrors, reply,
                    apiResponse, call >>
    /\ UNCHANGED extVars

\* the handler's result arrives and is pushed; the loop goes on whatever it is
FinishCall(slackOk) ==
    /\ pc = "dispatch"
    /\ pending # NoCall
    /\ LET result == HandleFunctionCall(pending, slackOk)
       IN /\ functionResults' = Append(functionResults, [name |-> pending.name, result |-> result])
          /\ results' = IF path = "slack"
                        THEN Append(results, FormatFunctionCallResult(pending.name, result))
                        ELSE results
    /\ threw' = Append(threw, SlackCallThrows(pending, slackOk))
    /\ idx' = idx + 1
    /\ pending' = NoCall
    /\ UNCHANGED << pc, path, history, aiContent, batch, dispatched, decision,
                    issued, round, followUps, offered, providerCalls,
                    providerFailures, failedRound, topLevelErrors, reply,
                    apiResponse, call >>
    /\ UNCHANGED extVars

LoopDone == pc = "dispatch" /\ pending = NoCall /\ idx = Len(batch)

\* Slack path, after the loop: shouldContinueWorkflow says continue and
\* generateFollowUpResponse calls the model with the relevant functions
ContinueWorkflow(maxFollowUps) ==
    /\ LoopDone
    /\ path = "slack"
    /\ Len(functionResults) > 0
    /\ shouldContinueWorkflow(functionResults, history)
    /\ followUps < maxFollowUps
    /\ pc' = "awaitFollowUp"
    /\ followUps' = followUps + 1
    /\ providerCalls' = providerCalls + 1
    /\ offered' = relevantFunctions(functionResults)
    /\ decision' = "continue"
    /\ UNCHANGED << path, history, aiContent, batch, idx, pending, functionResults,
                    results, dispatched, threw, issued, round, providerFailures,
                    failedRound, topLevelErrors, reply, apiResponse, call >>
    /\ UNCHANGED extVars

\* after the loop, no continuation: every frame returns its results and the
\* caller builds the reply (Slack) or the answer (API)
ReturnResults ==
    /\ LoopDone
    /\ \/ path = "api"
       \/ Len(functionResults) = 0
       \/ ~shouldContinueWorkflow(functionResults, history)
    /\ pc' = "done"
    /\ IF path = "slack"
       THEN /\ reply' = FinalResponse(aiContent, TRUE, results)
            /\ UNCHANGED apiResponse
       ELSE /\ apiResponse' = ApiOk(aiContent, functionResults)
            /\ UNCHANGED reply
    /\ decision' = IF path = "slack" /\ Len(functionResults) > 0 THEN "stop" ELSE decision
    /\ UNCHANGED << path, history, aiContent, batch, idx, pending, functionResults,
                    results, dispatched, threw, issued, round, followUps, offered,
                    providerCalls, providerFailures, failedRound, topLevelErrors,
                    call >>
    /\ UNCHANGED extVars

\* the follow-up response arrives: with function calls processFunctionCalls
\* recurses, without them every frame returns
FollowUpResponds(calls) ==
    /\ pc = "awaitFollowUp"
    /\ issued' = issued \o Ids(calls)
    /\ IF Len(calls) > 0
       THEN /\ pc' = "dispatch"
            /\ batch' = FollowUpBatch(batch, calls)
            /\ idx' = 0
            /\ functionResults' = << >>
            /\ history' = Append(history, AssistantMessage)
            /\ round' = round + 1
            /\ UNCHANGED reply
       ELSE /\ pc' = "done"
            /\ reply' = FinalResponse(aiContent, TRUE, results)
            /\ UNCHANGED << batch, idx, functionResults, history, round >>
    /\ UNCHANGED << path, aiContent, pending, results, dispatched, threw, decision,
                    followUps, offered, providerCalls, providerFailures,
                    failedRound, topLevelErrors, apiResponse, call >>
    /\ UNCHANGED extVars

\* a follow-up failure that escapes to the caller's catch
FollowUpFailsPropagates ==
    /\ pc = "awaitFollowUp"
    /\ providerFailures' = providerFailures + 1
    /\ failedRound' = round + 1
    /\ pc' = "error"
    /\ topLevelErrors' = topLevelErrors + 1
    /\ UNCHANGED << path, history, aiContent, batch, idx, pending, functionResults,
                    results, dispatched, threw, decision, issued, round,
                    followUps, offered, providerCalls, reply, apiResponse, call >>
    /\ UNCHANGED extVars

\* the follow-up aiClient.generateResponse throws: generateFollowUpResponse
\* catches it and returns { content: '', functionCalls: [] }
FollowUpFails ==
    /\ pc = "awaitFollowUp"
    /\ providerFailures' = providerFailures + 1
    /\ failedRound' = round + 1
    /\ pc' = "done"
    /\ reply' = FinalResponse(aiContent, TRUE, results)
    /\ UNCHANGED << path, history, aiContent, batch, idx, pending, functionResults,
                    results, dispatched, threw, decision, issued, round,
                    followUps, offered, providerCalls, topLevelErrors,
                    apiResponse, call >>
    /\ UNCHANGED extVars

Budget(maxCalls, maxDispatched) == Min(maxCalls, maxDispatched - Len(dispatched))

Next ==
    \/ \E p \in { "slack", "api" }, text \in Texts : ReceiveMessage(p, text)
    \/ \E content \in Contents,
          calls \in Responses(1, RunNames, Budget(MaxCalls, MaxDispatched)) :
          ModelResponds(content, calls)
    \/ ModelFails
    \/ StartCall
    \/ \E slackOk \in BOOLEAN : FinishCall(slackOk)
    \/ ContinueWorkflow(MaxFollowUps)
    \/ ReturnResults
    \/ \E calls \in Responses(round + 1, RunNames, Budget(MaxCalls, MaxDispatched)) :
          FollowUpResponds(calls)
    \/ FollowUpFails

Spec == Init /\ [][Next]_vars

\* The single-call workflow: the model answers every round with one call
NextDeep ==
    \/ \E p \in { "slack", "api" }, text \in Texts : ReceiveMessage(p, text)
    \/ \E content \in Contents,
          calls \in Responses(1, DeepNames, Budget(1, DeepFollowUps + 1)) :
          ModelResponds(content, calls)
    \/ ModelFails
    \/ StartCall
    \/ \E slackOk \in BOOLEAN : FinishCall(slackOk)
    \/ ContinueWorkflow(DeepFollowUps)
    \/ ReturnResults
    \/ \E calls \in Responses(round + 1, DeepNames, Budget(1, DeepFollowUps + 1)) :
          FollowUpResponds(calls)
    \/ FollowUpFails

SpecDeep == Init /\ [][NextDeep]_vars

----------------------------------------------------------------------------
(* The dispatcher and the continuation predicate on their own inputs *)

Idle ==
    /\ path = "none"
    /\ aiContent = ""
    /\ batch = << >>
    /\ idx = 0
    /\ pending = NoCall
    /\ results = << >>
    /\ dispatched = << >>
    /\ threw = << >>
    /\ decision = "none"
    /\ issued = << >>
    /\ round = 0
    /\ followUps = 0
    /\ offered = << >>
    /\ providerCalls = 0
    /\ providerFailures = 0
    /\ failedRound = 0
    /\ topLevelErrors = 0
    /\ reply = << >>
    /\ apiResponse = NoApiResponse

\* names a function call may carry: exported, inherited, unknown
DispatchNames == ExportedActions \cup InheritedFunctions \cup { "deleteWorkspace", "" }

InitDispatch ==
    /\ Idle
    /\ ExtIdle
    /\ pc = "direct"
    /\ history = << >>
    /\ functionResults = << >>
    /\ \E n \in DispatchNames, a \in { "object", "null" } :
          call = [input |-> [id |-> << 1, 1 >>, name |-> n, args |-> a],
                  result |-> NoResult]

\* handleSlackFunctionCall(functionCall) returns
DirectDispatch(slackOk) ==
    /\ pc = "direct"
    /\ pc' = "returned"
    /\ call' = [call EXCEPT !.result = HandleSlackFunctionCall(call.input, slackOk)]
    /\ UNCHANGED << path, history, aiContent, batch, idx, pending, functionResults,
                    results, dispatched, threw, decision, issued, round,
                    followUps, offered, providerCalls, providerFailures,
                    failedRound, topLevelErrors, reply, apiResponse >>
    /\ UNCHANGED extVars

NextDispatch == \E slackOk \in BOOLEAN : DirectDispatch(slackOk)

SpecDispatch == InitDispatch /\ [][NextDispatch]_vars

InitContinuation ==
    /\ Idle
    /\ ExtIdle
    /\ pc = "evaluate"
    /\ call = [input |-> NoCall, result |-> NoResult]
    /\ \E text \in Texts : history = << SystemMessage, UserMessage(text) >>
    /\ \E n \in DispatchNames, ok \in BOOLEAN :
          functionResults =
              << [name |-> n,
                  result |-> HandleFunctionCall([id |-> << 1, 1 >>, name |-> n, args |-> "object"], ok)] >>

\* shouldContinueWorkflow(functionResults, conversationHistory) returns
EvaluateContinuation ==
    /\ pc = "evaluate"
    /\ pc' = "evaluated"
    /\ decision' = IF shouldContinueWorkflow(functionResults, history)
                   THEN "continue" ELSE "stop"
    /\ UNCHANGED << path, history, aiContent, batch, idx, pending, functionResults,
                    results, dispatched, threw, issued, round, followUps, offered,
                    providerCalls, providerFailures, failedRound, topLevelErrors,
                    reply, apiResponse, call >>
    /\ UNCHANGED extVars

NextContinuation == EvaluateContinuation

SpecContinuation == InitContinuation /\ [][NextContinuation]_vars

----------------------------------------------------------------------------
(* Argument passing of the dispatcher *)

\* the parameters of the exported actions, in the order of their signatures
ActionParameters(name) ==
    IF name = "inviteUserToWorkspace"
    THEN << "email", "channelIds", "teamId", "customMessage" >>
    ELSE IF name = "assignUserToWorkspace" THEN << "teamId", "userId" >>
    ELSE IF name = "sendMessage" THEN << "channelId", "text", "threadTs" >>
    ELSE << "name", "isPrivate" >>

\* the required properties of the function definitions
RequiredProperties(name) ==
    IF name = "inviteUserToWorkspace" THEN { "email" }
    ELSE IF name = "assignUserToWorkspace" THEN { "teamId", "userId" }
    ELSE IF name = "sendMessage" THEN { "channelId", "text" }
    ELSE { "name" }

InvokedNames ==
    { "inviteUserToWorkspace", "assignUserToWorkspace", "sendMessage", "createChannel" }

\* the value the model gave for the property key
ValueFor(key) == << "value of", key >>

Undefined == << "undefined" >>

\* the arguments objects the model may emit for a function: the required
\* properties and any of the optional ones, in any key order
ArgumentObjects(name) ==
    LET keys == Range(ActionParameters(name))
        orders == UNION { [1..n -> keys] : n \in 1..Cardinality(keys) }
    IN { [i \in 1..Len(ks) |-> [key |-> ks[i], value |-> ValueFor(ks[i])]] :
           ks \in { o \in orders :
                      /\ \A i, j \in 1..Len(o) : o[i] = o[j] => i = j
                      /\ RequiredProperties(name) \subseteq Range(o) } }

\* Object.values(functionCall.arguments): the values in key order
ObjectValues(arguments) == [i \in 1..Len(arguments) |-> arguments[i].value]

\* actionFunction(...values): the i-th value goes to the i-th parameter
SpreadCall(parameters, values) ==
    [i \in 1..Len(parameters) |->
        [parameter |-> parameters[i],
         value |-> IF i <= Len(values) THEN values[i] ELSE Undefined]]

InitArgs ==
    /\ Idle
    /\ pc = "invoke"
    /\ history = << >>
    /\ functionResults = << >>
    /\ call = [input |-> NoCall, result |-> NoResult]
    /\ botUserId = "" /\ posted = 0 /\ inbox = {} /\ runs = << >>
    /\ thinking = 0 /\ awaiting = {}
    /\ reference = NoReference
    /\ ApiIdle
    /\ slackApi = NoSlackApiCall
    /\ formatting = NoFormatting
    /\ UnitIdle
    /\ \E name \in InvokedNames :
          \E arguments \in ArgumentObjects(name) :
              invocation = [name |-> name, arguments |-> arguments, received |-> << >>]

\* handleSlackFunctionCall calls the action with the spread argument values
InvokeAction ==
    /\ pc = "invoke"
    /\ pc' = "invoked"
    /\ invocation' =
          [invocation EXCEPT
              !.received = SpreadCall(ActionParameters(invocation.name),
                                      ObjectValues(invocation.arguments))]
    /\ UNCHANGED << runVars, eventVars, pairVars, apiVars, slackApiVars, formatVars, unitVars >>

NextArgs == InvokeAction

SpecArgs == InitArgs /\ [][NextArgs]_vars

----------------------------------------------------------------------------
(* Slack event handlers *)

\* most messages posted
MaxMessages == 2

\* auth.test().user_id
BotId == "UBOT"
UserId == "U1"

\* message.user: a user, the bot itself, or absent
Authors == { UserId, BotId, "" }

\* where and how a message is posted: a direct message to the bot, a channel
\* message that mentions the bot, a channel message that does not
MessageKinds == { "dm", "mention", "plain" }

\* the events Slack delivers for one posted message: a message event, and
\* for a message that mentions the bot an app_mention event as well
DeliveredEvents(ts, kind, user, hasText) ==
    { [type |-> "message", ts |-> ts, user |-> user, hasText |-> hasText] }
    \cup (IF kind = "mention" /\ hasText
          THEN { [type |-> "app_mention", ts |-> ts, user |-> user, hasText |-> hasText] }
          ELSE {})

\* somebody posts a message
PostMessage(kind, user, hasText) ==
    /\ pc = "listening"
    /\ posted < MaxMessages
    /\ posted' = posted + 1
    /\ inbox' = inbox \cup DeliveredEvents(posted + 1, kind, user, hasText)
    /\ UNCHANGED << pc, runVars, argVars, pairVars, apiVars, slackApiVars, formatVars, unitVars,
                    botUserId, runs, thinking, awaiting >>

\* most "thinking" messages sent
MaxThinking == 3

\* the message event of the k-th thinking message, which the bot authored
ThinkingEvent(k) ==
    [type |-> "message", ts |-> MaxMessages + k, user |-> BotId, hasText |-> TRUE]

\* a handler returns without starting a run
Ignore(e) ==
    /\ inbox' = inbox \ { e }
    /\ UNCHANGED << runs, thinking, awaiting >>

\* processMessageAndGenerateResponse up to its first await: the thinking
\* message is sent, and Slack has a message event for it to deliver
StartRun(e) ==
    /\ thinking < MaxThinking
    /\ thinking' = thinking + 1
    /\ inbox' = (inbox \ { e }) \cup { ThinkingEvent(thinking + 1) }
    /\ runs' = Append(runs, [ts |-> e.ts, handler |-> e.type, user |-> e.user])
    /\ awaiting' = awaiting \cup { Len(runs) + 1 }

\* processMessageAndGenerateResponse after the thinking message was sent:
\* the bot user id is looked up when unknown, the model is called once and
\* the action the message asks for is dispatched
ContinueRun(i) ==
    /\ pc = "listening"
    /\ i \in awaiting
    /\ awaiting' = awaiting \ { i }
    /\ botUserId' = IF botUserId = "" THEN BotId ELSE botUserId
    /\ providerCalls' = providerCalls + 1
    /\ dispatched' = Append(dispatched, << runs[i].ts, 1 >>)
    /\ UNCHANGED << pc, path, history, aiContent, batch, idx, pending,
                    functionResults, results, threw, decision, issued, round,
                    followUps, offered, providerFailures, failedRound,
                    topLevelErrors, reply, apiResponse, call, argVars, pairVars,
                    apiVars, slackApiVars, formatVars, unitVars, posted, inbox,
                    runs, thinking >>

\* app.message(...)
OnMessage(e) ==
    /\ pc = "listening"
    /\ e \in inbox
    /\ e.type = "message"
    /\ IF e.user = "" \/ ~e.hasText
       THEN Ignore(e)
       ELSE IF botUserId # "" /\ e.user = botUserId
       THEN Ignore(e)
       ELSE StartRun(e)
    /\ UNCHANGED << pc, runVars, argVars, pairVars, apiVars, slackApiVars,
                    formatVars, unitVars, posted, botUserId >>

\* app.event('app_mention', ...)
OnAppMention(e) ==
    /\ pc = "listening"
    /\ e \in inbox
    /\ e.type = "app_mention"
    /\ StartRun(e)
    /\ UNCHANGED << pc, runVars, argVars, pairVars, apiVars, slackApiVars,
                    formatVars, unitVars, posted, botUserId >>

\* app.event('app_home_opened', ...)
OnAppHomeOpened ==
    /\ pc = "listening"
    /\ botUserId = ""
    /\ botUserId' = BotId
    /\ UNCHANGED << pc, runVars, argVars, pairVars, apiVars, slackApiVars, formatVars, unitVars, posted,
                    inbox, runs, thinking, awaiting >>

InitEvents ==
    /\ Idle
    /\ ExtIdle
    /\ pc = "listening"
    /\ history = << >>
    /\ functionResults = << >>
    /\ call = [input |-> NoCall, result |-> NoResult]

NextEvents ==
    \/ \E kind \in MessageKinds, user \in Authors, hasText \in BOOLEAN :
          /\ kind = "mention" => user = UserId
          /\ PostMessage(kind, user, hasText)
    \/ \E e \in inbox : OnMessage(e)
    \/ \E e \in inbox : OnAppMention(e)
    \/ \E i \in awaiting : ContinueRun(i)
    \/ OnAppHomeOpened

SpecEvents == InitEvents /\ [][NextEvents]_vars

----------------------------------------------------------------------------
(* The same instruction on the Slack path and on the API path *)

\* names of the function calls of a batch
Names(calls) == [i \in 1..Len(calls) |-> calls[i].name]

\* names of the calls dispatched so far, in dispatch order
DispatchedNames ==
    IF path = "slack" THEN [i \in 1..Len(results) |-> results[i].name]
    ELSE [i \in 1..Len(functionResults) |-> functionResults[i].name]

\* number of calls of the first model response
FirstRoundSize == Cardinality({ i \in 1..Len(issued) : issued[i][1] = 1 })

\* a finished Slack run is kept, and the same instruction is sent to
\* POST /api/process-message
Replay ==
    /\ pc = "done"
    /\ path = "slack"
    /\ reference = NoReference
    /\ reference' = [text |-> LastUserMessage(history),
                     content |-> aiContent,
                     first |-> SubSeq(DispatchedNames, 1, FirstRoundSize),
                     sequence |-> DispatchedNames]
    /\ pc' = "awaitModel"
    /\ path' = "api"
    /\ history' = << SystemMessage, UserMessage(LastUserMessage(history)) >>
    /\ offered' = AVAILABLE_FUNCTIONS
    /\ providerCalls' = 1
    /\ aiContent' = ""
    /\ batch' = << >>
    /\ idx' = 0
    /\ functionResults' = << >>
    /\ results' = << >>
    /\ dispatched' = << >>
    /\ threw' = << >>
    /\ decision' = "none"
    /\ issued' = << >>
    /\ round' = 0
    /\ followUps' = 0
    /\ providerFailures' = 0
    /\ failedRound' = 0
    /\ reply' = << >>
    /\ UNCHANGED << pending, topLevelErrors, apiResponse, call, argVars, eventVars,
                    apiVars, slackApiVars, formatVars, unitVars >>

\* the model answers the API request as it answered the Slack message
SameModelBehaviour(content, calls) ==
    reference # NoReference =>
        (content = reference.content /\ Names(calls) = reference.first)

NextPair ==
    \/ \E text \in Texts : ReceiveMessage("slack", text)
    \/ \E content \in Contents,
          calls \in Responses(1, RunNames, Budget(MaxCalls, MaxDispatched)) :
          SameModelBehaviour(content, calls) /\ ModelResponds(content, calls)
    \/ reference = NoReference /\ ModelFails
    \/ StartCall
    \/ \E slackOk \in BOOLEAN : FinishCall(slackOk)
    \/ ContinueWorkflow(MaxFollowUps)
    \/ ReturnResults
    \/ \E calls \in Responses(round + 1, RunNames, Budget(MaxCalls, MaxDispatched)) :
          FollowUpResponds(calls)
    \/ FollowUpFails
    \/ Replay

SpecPair == Init /\ [][NextPair]_vars

----------------------------------------------------------------------------
(* The HTTP endpoint: processApiMessage and checkRateLimit *)

\* env.API_RATE_LIMIT, requests per window (documented default 100)
API_RATE_LIMIT == 2
\* most requests sent to the endpoint
MaxRequests == 4
\* last instant of the exploration
MaxTime == 5

\* resetTime: now + 60000 ms, in units of 30 seconds
WindowLength == 2

\* env.API_KEY
API_KEY == "secret"

\* values of the X-API-Key header: absent, wrong, right
ApiKeys == { "", "guess", API_KEY }

ApiError(status, code) ==
    [status |-> status, success |-> FALSE, code |-> code, results |-> << >>, response |-> ""]

\* a limiter that lets one request more through before it answers 429
checkRateLimitOffByOne(clientIp) ==
    LET rateLimit == rateLimitMap[clientIp]
    IN IF rateLimit = NoRateLimit \/ rateLimit.resetTime < now
       THEN [pass |-> TRUE, entry |-> [count |-> 1, resetTime |-> now + WindowLength]]
       ELSE LET count == rateLimit.count + 1
            IN [pass |-> ~(count > API_RATE_LIMIT + 1),
                entry |-> [count |-> count, resetTime |-> rateLimit.resetTime]]

\* checkRateLimit(clientIp, res): whether the request passes, and the entry
\* of rateLimitMap afterwards
checkRateLimit(clientIp) ==
    LET rateLimit == rateLimitMap[clientIp]
    IN IF rateLimit = NoRateLimit \/ rateLimit.resetTime < now
       THEN [pass |-> TRUE, entry |-> [count |-> 1, resetTime |-> now + WindowLength]]
       ELSE LET count == rateLimit.count + 1
            IN [pass |-> ~(count > API_RATE_LIMIT),
                entry |-> [count |-> count, resetTime |-> rateLimit.resetTime]]

Answer(code, consulted) == [code |-> code, consulted |-> consulted]

\* checks that validate the body before the rate limit is consulted
GateBodyBeforeRateLimit(ip, key, hasMessage) ==
    IF ~enabled THEN Answer("api_disabled", FALSE)
    ELSE IF key = "" \/ key # API_KEY THEN Answer("authentication_failed", FALSE)
    ELSE IF ~hasMessage THEN Answer("missing_required_field", FALSE)
    ELSE IF ~checkRateLimit(ip).pass THEN Answer("rate_limit_exceeded", TRUE)
    ELSE Answer("process", TRUE)

\* the checks of processApiMessage in their order: the first one that
\* answers, and whether checkRateLimit was called on the way
Gate(ip, key, hasMessage) ==
    IF ~enabled THEN Answer("api_disabled", FALSE)
    ELSE IF key = "" \/ key # API_KEY THEN Answer("authentication_failed", FALSE)
    ELSE IF ~checkRateLimit(ip).pass THEN Answer("rate_limit_exceeded", TRUE)
    ELSE IF ~hasMessage THEN Answer("missing_required_field", TRUE)
    ELSE Answer("process", TRUE)

\* res.status(...).json(errorResponse) of the check that answered
Rejection(code) ==
    IF code = "api_disabled" THEN ApiError(403, code)
    ELSE IF code = "authentication_failed" THEN ApiError(401, code)
    ELSE IF code = "rate_limit_exceeded" THEN ApiError(429, code)
    ELSE ApiError(400, code)

\* requests of the client that passed checkRateLimit in a window still open
PassedInOpenWindow(ip) ==
    Cardinality({ i \in 1..Len(log) :
                    log[i].ip = ip /\ log[i].passed /\ now <= log[i].window })

\* processApiMessage(req, res) up to its answer or, when every check passes,
\* up to the first aiClient.generateResponse
ApiRequest(ip, key, hasMessage) ==
    /\ pc \in { "serving", "answered", "done", "error" }
    /\ handled < MaxRequests
    /\ handled' = handled + 1
    /\ LET gate == Gate(ip, key, hasMessage)
           limit == checkRateLimit(ip)
       IN /\ request' = [ip |-> ip, key |-> key, hasMessage |-> hasMessage,
                         passedBefore |-> PassedInOpenWindow(ip),
                         reached |-> gate.consulted]
          /\ rateLimitMap' = IF gate.consulted
                             THEN [rateLimitMap EXCEPT ![ip] = limit.entry]
                             ELSE rateLimitMap
          /\ log' = IF gate.consulted
                    THEN Append(log, [ip |-> ip, at |-> now,
                                      window |-> limit.entry.resetTime,
                                      passed |-> limit.pass])
                    ELSE log
          /\ IF gate.code = "process"
             THEN /\ pc' = "awaitModel"
                  /\ apiResponse' = NoApiResponse
                  /\ providerCalls' = 1
                  /\ history' = << SystemMessage, UserMessage(TextCreate) >>
                  /\ offered' = AVAILABLE_FUNCTIONS
             ELSE /\ pc' = "answered"
                  /\ apiResponse' = Rejection(gate.code)
                  /\ providerCalls' = 0
                  /\ history' = << >>
                  /\ offered' = << >>
    /\ path' = "api"
    /\ aiContent' = ""
    /\ batch' = << >>
    /\ idx' = 0
    /\ functionResults' = << >>
    /\ results' = << >>
    /\ dispatched' = << >>
    /\ threw' = << >>
    /\ issued' = << >>
    /\ round' = 0
    /\ providerFailures' = 0
    /\ failedRound' = 0
    /\ topLevelErrors' = 0
    /\ UNCHANGED << pending, decision, followUps, reply, call, argVars, eventVars,
                    pairVars, slackApiVars, formatVars, unitVars, now, enabled >>

\* time passes
Tick ==
    /\ pc \in { "serving", "answered", "done", "error", "awaitModel", "dispatch" }
    /\ path \in { "none", "api" }
    /\ now < MaxTime
    /\ now' = now + 1
    /\ UNCHANGED << pc, runVars, argVars, eventVars, pairVars, slackApiVars, formatVars, unitVars,
                    enabled, rateLimitMap, handled, request, log >>

InitApi ==
    /\ Idle
    /\ pc = "serving"
    /\ history = << >>
    /\ functionResults = << >>
    /\ call = [input |-> NoCall, result |-> NoResult]
    /\ invocation = NoInvocation
    /\ botUserId = "" /\ posted = 0 /\ inbox = {} /\ runs = << >>
    /\ thinking = 0 /\ awaiting = {}
    /\ reference = NoReference
    /\ now = 1
    /\ enabled \in BOOLEAN
    /\ rateLimitMap = [ip \in IPs |-> NoRateLimit]
    /\ handled = 0
    /\ request = NoRequest
    /\ log = << >>
    /\ slackApi = NoSlackApiCall
    /\ formatting = NoFormatting
    /\ UnitIdle

NextApi ==
    \/ \E ip \in IPs, key \in ApiKeys, hasMessage \in BOOLEAN :
          ApiRequest(ip, key, hasMessage)
    \/ Tick
    \/ \E calls \in Responses(1, DeepNames, 1) : ModelResponds("All set.", calls)
    \/ ModelFails
    \/ StartCall
    \/ \E slackOk \in BOOLEAN : FinishCall(slackOk)
    \/ ReturnResults

SpecApi == InitApi /\ [][NextApi]_vars

----------------------------------------------------------------------------
(* Slack API calls with fallback: callSlackApi and callSlackWebApi *)

SlackMethods == { "conversations.list", "chat.postMessage", "admin.users.invite" }

\* values of the retry-after header of the error: absent, or seconds
RetryAfterHeaders == { "", "0", "5" }

\* parseInt(error.headers?.['retry-after'] || '30', 10)
ParseRetryAfter(header) ==
    IF header = "" THEN 30 ELSE IF header = "0" THEN 0 ELSE 5

PlatformError(dataError, header) ==
    [class |-> "Error", code |-> "slack_webapi_platform_error",
     dataError |-> dataError, retryAfterHeader |-> header]

RequestError ==
    [class |-> "Error", code |-> "slack_webapi_request_error",
     dataError |-> "", retryAfterHeader |-> ""]

\* errors app.client.apiCall may throw
BoltErrors ==
    { PlatformError(e, h) : e \in { "ratelimited", "channel_not_found", "not_authed" },
                            h \in RetryAfterHeaders }
    \cup { RequestError }

RateLimitError == [class |-> "RateLimitError", code |-> "", dataError |-> "", retryAfterHeader |-> ""]

ExternalApiError == [class |-> "ExternalApiError", code |-> "", dataError |-> "", retryAfterHeader |-> ""]

\* what callSlackWebApi may end with: the response data, or the error its
\* catch throws (RateLimitError on HTTP 429, ExternalApiError otherwise)
WebApiOutcomes == { NoError, RateLimitError, ExternalApiError }

\* a test that takes every error of the first attempt for a rate limit
IsRateLimitedAnyError(error) == error # NoError

\* error.code === 'slack_webapi_platform_error' && error.data?.error === 'ratelimited'
IsRateLimited(error) ==
    error.code = "slack_webapi_platform_error" /\ error.dataError = "ratelimited"

InitSlackApi ==
    /\ Idle
    /\ pc = "callSlackApi"
    /\ history = << >>
    /\ functionResults = << >>
    /\ call = [input |-> NoCall, result |-> NoResult]
    /\ invocation = NoInvocation
    /\ botUserId = "" /\ posted = 0 /\ inbox = {} /\ runs = << >>
    /\ thinking = 0 /\ awaiting = {}
    /\ reference = NoReference
    /\ ApiIdle
    /\ formatting = NoFormatting
    /\ UnitIdle
    /\ \E method \in SlackMethods, useUserToken \in BOOLEAN :
          slackApi = [NoSlackApiCall EXCEPT !.method = method,
                                            !.useUserToken = useUserToken]

\* step 1: (app.client as any).apiCall(method, params) returns or throws
CallBoltClient(error) ==
    /\ pc = "callSlackApi"
    /\ LET attempted == [slackApi EXCEPT !.attempts = Append(@, "bolt"),
                                         !.firstError = error]
       IN IF error = NoError
          THEN /\ pc' = "apiReturned"
               /\ slackApi' = [attempted EXCEPT !.returned = "bolt result"]
          ELSE IF IsRateLimited(error)
          THEN LET retryAfter == ParseRetryAfter(error.retryAfterHeader)
               IN /\ pc' = IF retryAfter # 0 THEN "fallbackWait" ELSE "fallbackCall"
                  /\ slackApi' = [attempted EXCEPT !.retryAfter = retryAfter]
          ELSE /\ pc' = "apiThrown"
               /\ slackApi' = [attempted EXCEPT !.thrown = error]
    /\ UNCHANGED << runVars, argVars, eventVars, pairVars, apiVars, formatVars, unitVars >>

\* callSlackWebApi: await new Promise(resolve => setTimeout(resolve, retryAfter * 1000))
WaitRetryAfter ==
    /\ pc = "fallbackWait"
    /\ pc' = "fallbackCall"
    /\ slackApi' = [slackApi EXCEPT !.waited = slackApi.retryAfter]
    /\ UNCHANGED << runVars, argVars, eventVars, pairVars, apiVars, formatVars, unitVars >>

\* step 2: callSlackWebApi posts with axios; its failure is wrapped into a
\* RateLimitError by callSlackApi
CallWebApi(webApiError) ==
    /\ pc = "fallbackCall"
    /\ LET attempted ==
               [slackApi EXCEPT
                   !.attempts = Append(@, "webapi"),
                   !.token = IF slackApi.useUserToken THEN "SLACK_USER_TOKEN"
                             ELSE "SLACK_BOT_TOKEN",
                   !.webApiError = webApiError]
       IN IF webApiError = NoError
          THEN /\ pc' = "apiReturned"
               /\ slackApi' = [attempted EXCEPT !.returned = "webapi data"]
          ELSE /\ pc' = "apiThrown"
               /\ slackApi' = [attempted EXCEPT !.thrown = RateLimitError]
    /\ UNCHANGED << runVars, argVars, eventVars, pairVars, apiVars, formatVars, unitVars >>

NextSlackApi ==
    \/ \E error \in BoltErrors \cup { NoError } : CallBoltClient(error)
    \/ WaitRetryAfter
    \/ \E webApiError \in WebApiOutcomes : CallWebApi(webApiError)

SpecSlackApi == InitSlackApi /\ [][NextSlackApi]_vars

----------------------------------------------------------------------------
(* Conversation history formatting: formatConversationHistory *)

\* longest message list formatted
MaxHistory == 3

MAX_CONVERSATION_MESSAGES == 0

Roles == { "system", "user", "assistant" }

MessageTexts == { "hello", "done" }

\* model ids, as the prefix up to the slash and the rest
ModelIds ==
    { << "anthropic/", "claude-3-opus" >>, << "google/", "gemini-pro" >>,
      << "openai/", "gpt-4-turbo" >> }

\* modelId.startsWith(prefix)
StartsWith(modelId, prefix) == modelId[1] = prefix

\* message lists: the i-th message carries the timestamp i
MessageLists ==
    UNION { { [i \in 1..n |-> [role |-> rs[i], content |-> << ts[i] >>, timestamp |-> i]] :
                rs \in [1..n -> Roles], ts \in [1..n -> MessageTexts] } :
            n \in 0..MaxHistory }

\* Array.prototype.slice(-n): the last n elements, and all of them for
\* n = 0, since -0 is 0
SliceFromEnd(s, n) ==
    IF n = 0 \/ n >= Len(s) THEN s ELSE SubSeq(s, Len(s) - n + 1, Len(s))

\* a merge that pushes no copy but overwrites the previous message with the
\* current one, content appended
formatForAnthropicKeepsLatest(messages) ==
    LET RECURSIVE fold(_, _)
        fold(formattedMessages, i) ==
            IF i > Len(messages) THEN formattedMessages
            ELSE LET currentMessage == messages[i]
                     n == Len(formattedMessages)
                 IN IF n > 0 /\ formattedMessages[n].role = currentMessage.role
                    THEN fold([formattedMessages EXCEPT
                                  ![n] = [currentMessage EXCEPT
                                             !.content = formattedMessages[n].content
                                                         \o << "\n\n" >> \o currentMessage.content]],
                              i + 1)
                    ELSE fold(Append(formattedMessages, currentMessage), i + 1)
    IN fold(<< >>, 1)

\* formatForAnthropic: a message of the same role as the previous output
\* message is appended to its content, any other is pushed as a copy
formatForAnthropic(messages) ==
    LET RECURSIVE fold(_, _)
        fold(formattedMessages, i) ==
            IF i > Len(messages) THEN formattedMessages
            ELSE LET currentMessage == messages[i]
                     n == Len(formattedMessages)
                 IN IF n > 0 /\ formattedMessages[n].role = currentMessage.role
                    THEN fold([formattedMessages EXCEPT
                                  ![n].content = @ \o << "\n\n" >> \o currentMessage.content],
                              i + 1)
                    ELSE fold(Append(formattedMessages, currentMessage), i + 1)
    IN fold(<< >>, 1)

\* a conversion that leaves the system messages out
formatForGoogleDropsSystem(messages) ==
    SelectSeq(messages, LAMBDA message : message.role # "system")

\* formatForGoogle: system messages become user messages with a prefix
formatForGoogle(messages) ==
    [i \in 1..Len(messages) |->
        IF messages[i].role = "system"
        THEN [role |-> "user",
              content |-> << "<system>\n" >> \o messages[i].content \o << "\n</system>" >>,
              timestamp |-> messages[i].timestamp]
        ELSE messages[i]]

\* an output entry that is the input's own i-th object
PushedObjectIsInput(i) == i

\* the object formatForAnthropic pushes for the i-th input message: the spread
\* { ...currentMessage } is a new object, none (0) of the input's objects
PushedObject(i) == 0

\* the input's message objects after formatForAnthropic returned: += writes
\* the content of prevMessage, the object last pushed
AnthropicInputAfter(messages) ==
    LET RECURSIVE fold(_, _, _, _)
        fold(input, prevObject, prevRole, i) ==
            IF i > Len(messages) THEN input
            ELSE IF prevRole = messages[i].role
                 THEN fold(IF prevObject = 0 THEN input
                           ELSE [input EXCEPT ![prevObject].content =
                                                 @ \o << "\n\n" >> \o input[i].content],
                           prevObject, prevRole, i + 1)
                 ELSE fold(input, PushedObject(i), messages[i].role, i + 1)
    IN fold(messages, 0, "", 1)

\* the input list after formatConversationHistory returned: slice copies the
\* list, formatForGoogle builds new objects, the default returns the slice
InputAfter(messages, modelId) ==
    IF StartsWith(modelId, "anthropic/")
    THEN LET first == Len(messages)
                      - Len(SliceFromEnd(messages, MAX_CONVERSATION_MESSAGES))
         IN SubSeq(messages, 1, first)
            \o AnthropicInputAfter(SliceFromEnd(messages, MAX_CONVERSATION_MESSAGES))
    ELSE messages

formatConversationHistory(messages, modelId) ==
    LET limitedMessages == SliceFromEnd(messages, MAX_CONVERSATION_MESSAGES)
    IN IF StartsWith(modelId, "anthropic/") THEN formatForAnthropic(limitedMessages)
       ELSE IF StartsWith(modelId, "google/") THEN formatForGoogle(limitedMessages)
       ELSE limitedMessages

InitFormat ==
    /\ Idle
    /\ pc = "format"
    /\ history = << >>
    /\ functionResults = << >>
    /\ call = [input |-> NoCall, result |-> NoResult]
    /\ invocation = NoInvocation
    /\ botUserId = "" /\ posted = 0 /\ inbox = {} /\ runs = << >>
    /\ thinking = 0 /\ awaiting = {}
    /\ reference = NoReference
    /\ ApiIdle
    /\ slackApi = NoSlackApiCall
    /\ UnitIdle
    /\ \E messages \in MessageLists, modelId \in ModelIds :
          formatting = [messages |-> messages, modelId |-> modelId, output |-> << >>,
                        after |-> << >>, again |-> << >>]

\* formatConversationHistory(messages, modelId) returns
FormatHistory ==
    /\ pc = "format"
    /\ pc' = "formatted"
    /\ formatting' =
          [formatting EXCEPT
              !.output = formatConversationHistory(formatting.messages, formatting.modelId),
              !.after = InputAfter(formatting.messages, formatting.modelId)]
    /\ UNCHANGED << runVars, argVars, eventVars, pairVars, apiVars, slackApiVars, unitVars >>

\* formatConversationHistory(output, modelId): the output formatted again
FormatAgain ==
    /\ pc = "formatted"
    /\ pc' = "reformatted"
    /\ formatting' =
          [formatting EXCEPT
              !.again = formatConversationHistory(formatting.output, formatting.modelId)]
    /\ UNCHANGED << runVars, argVars, eventVars, pairVars, apiVars, slackApiVars, unitVars >>

NextFormat == FormatHistory \/ FormatAgain

SpecFormat == InitFormat /\ [][NextFormat]_vars

----------------------------------------------------------------------------
(* Markdown conversion: convertMarkdownToSlackFormatting *)

\* most pieces a converted text is made of
MaxPieces == 3

\* the pieces texts are made of, each a sequence of characters
Pieces ==
    { << "*" >>, << "*", "*" >>, << "*", "*", "*" >>, << "a" >>, << " " >>,
      << "~", "~" >>, << "-" >>, << ">" >>, << "\n" >>,
      << "[", "a", "]", "(", "b", ")" >> }

RECURSIVE Flatten(_)
Flatten(pieces) ==
    IF pieces = << >> THEN << >> ELSE Head(pieces) \o Flatten(Tail(pieces))

\* the texts converted: strings as sequences of characters
MarkdownTexts ==
    UNION { { Flatten(pieces) : pieces \in [1..n -> Pieces] } : n \in 0..MaxPieces }

\* [ \t]
Blanks == { " ", "\t" }

\* \s
Whitespace == { " ", "\t", "\n", "\r" }

\* the first index from i on whose character is outside the set
RECURSIVE SkipChars(_, _, _)
SkipChars(content, i, set) ==
    IF i <= Len(content) /\ content[i] \in set
    THEN SkipChars(content, i + 1, set)
    ELSE i

\* the first index from i on that holds one of the characters of the set,
\* Len(content) + 1 if there is none
RECURSIVE FindChar(_, _, _)
FindChar(content, i, set) ==
    IF i <= Len(content) /\ content[i] \notin set
    THEN FindChar(content, i + 1, set)
    ELSE i

\* (.*?)cc: the least j from `from` on where two characters c follow a
\* stretch without a line break, 0 if there is none
ClosingPair(content, from, c) ==
    LET js == { j \in from..(Len(content) - 1) :
                  /\ content[j] = c
                  /\ content[j + 1] = c
                  /\ \A k \in from..(j - 1) : content[k] # "\n" }
    IN IF js = {} THEN 0 ELSE CHOOSE j \in js : \A k \in js : j <= k

\* content.replace(/cc(.*?)cc/g, 'c$1c'), from index i on
RECURSIVE ReplacePairs(_, _, _)
ReplacePairs(content, c, i) ==
    IF i > Len(content) THEN << >>
    ELSE IF /\ i < Len(content)
            /\ content[i] = c
            /\ content[i + 1] = c
            /\ ClosingPair(content, i + 2, c) # 0
         THEN LET j == ClosingPair(content, i + 2, c)
              IN << c >> \o SubSeq(content, i + 2, j - 1) \o << c >>
                 \o ReplacePairs(content, c, j + 2)
         ELSE << content[i] >> \o ReplacePairs(content, c, i + 1)

\* content.replace(/\*\*(.*?)\*\*/g, '*$1*')
ReplaceBold(content) == ReplacePairs(content, "*", 1)

\* (?<!\*)\*(?!\*): an asterisk with no asterisk before or after it
SingleAsterisk(content, i) ==
    /\ content[i] = "*"
    /\ (i = 1 \/ content[i - 1] # "*")
    /\ (i = Len(content) \/ content[i + 1] # "*")

\* (.*?)(?<!\*)\*(?!\*): the least j from `from` on that is a single asterisk
\* after a stretch without a line break, 0 if there is none
ClosingAsterisk(content, from) ==
    LET js == { j \in from..Len(content) :
                  /\ SingleAsterisk(content, j)
                  /\ \A k \in from..(j - 1) : content[k] # "\n" }
    IN IF js = {} THEN 0 ELSE CHOOSE j \in js : \A k \in js : j <= k

\* content.replace(/(?<!\*)\*(?!\*)(.*?)(?<!\*)\*(?!\*)/g, '_$1_'), from i on
RECURSIVE ReplaceItalicFrom(_, _)
ReplaceItalicFrom(content, i) ==
    IF i > Len(content) THEN << >>
    ELSE IF SingleAsterisk(content, i) /\ ClosingAsterisk(content, i + 1) # 0
         THEN LET j == ClosingAsterisk(content, i + 1)
              IN << "_" >> \o SubSeq(content, i + 1, j - 1) \o << "_" >>
                 \o ReplaceItalicFrom(content, j + 1)
         ELSE << content[i] >> \o ReplaceItalicFrom(content, i + 1)

ReplaceItalic(content) == ReplaceItalicFrom(content, 1)

\* content.replace(/\[([^\]]+)\]\(([^)]+)\)/g, '<$2|$1>'), from i on
RECURSIVE ReplaceLinksFrom(_, _)
ReplaceLinksFrom(content, i) ==
    IF i > Len(content) THEN << >>
    ELSE LET j == FindChar(content, i + 1, { "]" })
             k == FindChar(content, j + 2, { ")" })
         IN IF /\ content[i] = "["
               /\ j >= i + 2
               /\ j + 1 <= Len(content)
               /\ content[j + 1] = "("
               /\ k >= j + 3
               /\ k <= Len(content)
            THEN << "<" >> \o SubSeq(content, j + 2, k - 1) \o << "|" >>
                 \o SubSeq(content, i + 1, j - 1) \o << ">" >>
                 \o ReplaceLinksFrom(content, k + 1)
            ELSE << content[i] >> \o ReplaceLinksFrom(content, i + 1)

ReplaceLinks(content) == ReplaceLinksFrom(content, 1)

\* ^ under the m flag
LineStart(content, i) == i = 1 \/ content[i - 1] = "\n"

\* content.replace(/^[ \t]*[-*][ \t]+/gm, bullet + ' '), from i on, the
\* character U+2022 written "bullet"
RECURSIVE ReplaceBulletsFrom(_, _)
ReplaceBulletsFrom(content, i) ==
    IF i > Len(content) THEN << >>
    ELSE LET marker == SkipChars(content, i, Blanks)
             end == SkipChars(content, marker + 1, Blanks)
         IN IF /\ LineStart(content, i)
               /\ marker <= Len(content)
               /\ content[marker] \in { "-", "*" }
               /\ end > marker + 1
            THEN << "bullet", " " >> \o ReplaceBulletsFrom(content, end)
            ELSE << content[i] >> \o ReplaceBulletsFrom(content, i + 1)

ReplaceBullets(content) == ReplaceBulletsFrom(content, 1)

\* content.replace(/```([^`]*?)```/gs, '```$1```'): every match is replaced
\* by its own text
ReplaceCodeBlocks(content) == content

\* content.replace(/^>\s*(.*?)$/gm, '>$1'), from i on
RECURSIVE ReplaceBlockquotesFrom(_, _)
ReplaceBlockquotesFrom(content, i) ==
    IF i > Len(content) THEN << >>
    ELSE IF LineStart(content, i) /\ content[i] = ">"
         THEN LET text == SkipChars(content, i + 1, Whitespace)
                  end == FindChar(content, text, { "\n" })
              IN << ">" >> \o SubSeq(content, text, end - 1)
                 \o ReplaceBlockquotesFrom(content, end)
         ELSE << content[i] >> \o ReplaceBlockquotesFrom(content, i + 1)

ReplaceBlockquotes(content) == ReplaceBlockquotesFrom(content, 1)

\* content.replace(/~~(.*?)~~/g, '~$1~')
ReplaceStrikethrough(content) == ReplacePairs(content, "~", 1)

\* the replacements in the order of the code; the empty string is returned
\* as it is
convertMarkdownToSlackFormatting(content) ==
    IF content = << >> THEN content
    ELSE ReplaceStrikethrough(
             ReplaceBlockquotes(
                 ReplaceCodeBlocks(
                     ReplaceBullets(
                         ReplaceLinks(
                             ReplaceItalic(
                                 ReplaceBold(content)))))))

InitMarkdown ==
    /\ Idle
    /\ pc = "convert"
    /\ history = << >>
    /\ functionResults = << >>
    /\ call = [input |-> NoCall, result |-> NoResult]
    /\ invocation = NoInvocation
    /\ botUserId = "" /\ posted = 0 /\ inbox = {} /\ runs = << >>
    /\ thinking = 0 /\ awaiting = {}
    /\ reference = NoReference
    /\ ApiIdle
    /\ slackApi = NoSlackApiCall
    /\ formatting = NoFormatting
    /\ ContextsIdle
    /\ ThreadIdle
    /\ composite = NoComposite
    /\ \E content \in MarkdownTexts :
          markdown = [content |-> content, once |-> << >>, twice |-> << >>]

\* convertMarkdownToSlackFormatting(content) returns
Convert ==
    /\ pc = "convert"
    /\ pc' = "converted"
    /\ markdown' =
          [markdown EXCEPT !.once = convertMarkdownToSlackFormatting(markdown.content)]
    /\ UNCHANGED << runVars, argVars, eventVars, pairVars, apiVars, slackApiVars,
                    formatVars, contextVars, threadVars, compositeVars >>

\* convertMarkdownToSlackFormatting applied to its own result
ConvertAgain ==
    /\ pc = "converted"
    /\ pc' = "converted twice"
    /\ markdown' =
          [markdown EXCEPT !.twice = convertMarkdownToSlackFormatting(markdown.once)]
    /\ UNCHANGED << runVars, argVars, eventVars, pairVars, apiVars, slackApiVars,
                    formatVars, contextVars, threadVars, compositeVars >>

NextMarkdown == Convert \/ ConvertAgain

SpecMarkdown == InitMarkdown /\ [][NextMarkdown]_vars

----------------------------------------------------------------------------
(* Conversation context store: createContext, appendUserMessage,           *)
(* appendAssistantMessage, getHistory, count and the eviction policy       *)

\* latest time the store reads
MaxClock == MaxContexts

\* thread keys of the live conversations
Live(store) == { threadKey \in ThreadKeys : store[threadKey] # NoContext }

\* count()
Count(store) == Cardinality(Live(store))

\* the live conversations of the most recent lastActivityAt
MostRecentlyActive(store) ==
    { threadKey \in Live(store) :
        \A other \in Live(store) :
            store[other].lastActivityAt <= store[threadKey].lastActivityAt }

\* the live conversations of the oldest lastActivityAt
EvictionCandidates(store) ==
    { threadKey \in Live(store) :
        \A other \in Live(store) :
            store[threadKey].lastActivityAt <= store[other].lastActivityAt }

\* getHistory(threadKey): the full history, and nothing for an unknown key
getHistory(store, threadKey) ==
    IF threadKey \in Live(store)
    THEN [found |-> TRUE, messages |-> store[threadKey].messages]
    ELSE [found |-> FALSE, messages |-> << >>]

\* createContext(threadKey, channelId, userId) for a key that has a
\* conversation: it is returned unchanged
CreateExisting(threadKey) ==
    /\ threadKey \in Live(contexts)
    /\ UNCHANGED << contexts, clock, evictedKeys >>

\* createContext(threadKey, channelId, userId) for a new key: a conversation
\* seeded with the system message; when the count would exceed the capacity
\* one conversation of the oldest lastActivityAt is evicted
CreateNew(threadKey) ==
    /\ threadKey \notin Live(contexts)
    /\ LET created == [messages |-> << "system" >>, lastActivityAt |-> clock]
       IN IF Count(contexts) + 1 > MaxContexts
          THEN \E evicted \in EvictionCandidates(contexts) :
                  /\ contexts' = [contexts EXCEPT ![evicted] = NoContext,
                                                  ![threadKey] = created]
                  /\ evictedKeys' = (evictedKeys \ { threadKey }) \cup { evicted }
          ELSE /\ contexts' = [contexts EXCEPT ![threadKey] = created]
               /\ evictedKeys' = evictedKeys \ { threadKey }
    /\ UNCHANGED clock

\* appendUserMessage / appendAssistantMessage: the message is appended and
\* lastActivityAt updated; an unknown key fails with NotFoundError
AppendMessage(threadKey, role) ==
    /\ threadKey \in Live(contexts)
    /\ Len(contexts[threadKey].messages) <= MaxTurns
    /\ contexts' = [contexts EXCEPT ![threadKey] =
                       [messages |-> Append(@.messages, role), lastActivityAt |-> clock]]
    /\ UNCHANGED << clock, evictedKeys >>

\* time passes
Advance ==
    /\ clock < MaxClock
    /\ clock' = clock + 1
    /\ UNCHANGED << contexts, evictedKeys >>

InitContexts ==
    /\ Idle
    /\ pc = "store"
    /\ history = << >>
    /\ functionResults = << >>
    /\ call = [input |-> NoCall, result |-> NoResult]
    /\ invocation = NoInvocation
    /\ botUserId = "" /\ posted = 0 /\ inbox = {} /\ runs = << >>
    /\ thinking = 0 /\ awaiting = {}
    /\ reference = NoReference
    /\ ApiIdle
    /\ slackApi = NoSlackApiCall
    /\ formatting = NoFormatting
    /\ markdown = NoMarkdown
    /\ ContextsIdle
    /\ ThreadIdle
    /\ composite = NoComposite

ContextRest ==
    UNCHANGED << pc, runVars, argVars, eventVars, pairVars, apiVars, slackApiVars,
                 formatVars, markdownVars, threadVars, compositeVars >>

NextContexts ==
    \/ \E threadKey \in ThreadKeys : CreateExisting(threadKey) /\ ContextRest
    \/ \E threadKey \in ThreadKeys : CreateNew(threadKey) /\ ContextRest
    \/ \E threadKey \in ThreadKeys, role \in { "user", "assistant" } :
          AppendMessage(threadKey, role) /\ ContextRest
    \/ Advance /\ ContextRest

SpecContexts == InitContexts /\ [][NextContexts]_vars

----------------------------------------------------------------------------
(* Runs on one thread: processMessageAndGenerateResponse up to the first   *)
(* model call, interleaved at its await points                             *)

\* what initializeContextFromHistory finds of the thread's earlier messages
EarlierMessages ==
    { << >>,
      << [role |-> "user", text |-> "hello", by |-> 0] >>,
      << [role |-> "user", text |-> "hello", by |-> 0],
         [role |-> "assistant", text |-> "done", by |-> 0] >> }

DefaultSystemMessage == [role |-> "system", text |-> "instructions", by |-> 0]

\* fullHistory.find(msg => msg.role === 'system'): the first system message,
\* as a list of one, or of none when there is no system message
systemMessage(fullHistory) ==
    LET found == SelectSeq(fullHistory, LAMBDA msg : msg.role = "system")
    IN IF found = << >> THEN << >> ELSE << Head(found) >>

\* the first user message of the history
firstUserMessage(fullHistory) ==
    LET found == SelectSeq(fullHistory, LAMBDA msg : msg.role = "user")
    IN IF found = << >> THEN << >> ELSE << Head(found) >>

\* fullHistory[fullHistory.length - 1], as a list of one, or of none for an
\* empty history
userMessage(fullHistory) ==
    IF fullHistory = << >> THEN << >> ELSE << fullHistory[Len(fullHistory)] >>

\* minimalHistory: the system message if any, then the user message
minimalHistory(fullHistory) == systemMessage(fullHistory) \o userMessage(fullHistory)

\* app.message / app_mention call processMessageAndGenerateResponse, which
\* sends the thinking message and awaits it
BeginRun(r, text) ==
    /\ flow[r].stage = "idle"
    /\ flow' = [flow EXCEPT ![r] = [stage |-> "thinking", text |-> text, sent |-> << >>]]
    /\ UNCHANGED thread

\* the thinking message is sent: initializeContextFromHistory is called and
\* awaited
InitializeContext(r) ==
    /\ flow[r].stage = "thinking"
    /\ flow' = [flow EXCEPT ![r].stage = "initializing"]
    /\ UNCHANGED thread

\* initializeContextFromHistory: a thread without context gets one, seeded
\* with the system message and the thread's earlier messages
ContextInitialized(r) ==
    /\ flow[r].stage = "initializing"
    /\ flow' = [flow EXCEPT ![r].stage = "initialized"]
    /\ IF thread = NoThread
       THEN \E earlier \in EarlierMessages :
               thread' = << DefaultSystemMessage >> \o earlier
       ELSE UNCHANGED thread

\* the run resumes: addUserMessageToThread, getThreadHistory, the minimal
\* history and the call of aiClient.generateResponse, with no await between
AskModel(r) ==
    /\ flow[r].stage = "initialized"
    /\ LET fullHistory == Append(thread, [role |-> "user", text |-> flow[r].text, by |-> r])
       IN /\ thread' = fullHistory
          /\ flow' = [flow EXCEPT ![r].stage = "responding",
                                  ![r].sent = minimalHistory(fullHistory)]

\* the model answered: the reply is added to the thread
AddReply(r) ==
    /\ flow[r].stage = "responding"
    /\ flow' = [flow EXCEPT ![r].stage = "done"]
    /\ thread' = Append(thread, [role |-> "assistant", text |-> "done", by |-> r])

InitThread ==
    /\ Idle
    /\ pc = "thread"
    /\ history = << >>
    /\ functionResults = << >>
    /\ call = [input |-> NoCall, result |-> NoResult]
    /\ ExtIdle

ThreadRest ==
    UNCHANGED << pc, runVars, argVars, eventVars, pairVars, apiVars, slackApiVars,
                 formatVars, markdownVars, contextVars, compositeVars >>

NextThread ==
    \/ \E r \in RunIds, text \in MessageTexts : BeginRun(r, text) /\ ThreadRest
    \/ \E r \in RunIds : InitializeContext(r) /\ ThreadRest
    \/ \E r \in RunIds : ContextInitialized(r) /\ ThreadRest
    \/ \E r \in RunIds : AskModel(r) /\ ThreadRest
    \/ \E r \in RunIds : AddReply(r) /\ ThreadRest

SpecThread == InitThread /\ [][NextThread]_vars

----------------------------------------------------------------------------
(* createChannelAndInviteUsers *)

ChannelNames == { "launch-prep", "general" }

InvitedUsers == { "U1", "U2" }

\* createChannel(name, isPrivate): the result of the Slack call, or the
\* failure it threw
createChannel(name, isPrivate, throws) ==
    IF throws
    THEN [success |-> FALSE, error |-> "name_taken"]
    ELSE [success |-> TRUE, channelId |-> << "C", name >>, channelName |-> name,
          message |-> << "Successfully created", isPrivate, name >>]

\* inviteToChannel(channelId, userIds): the result of the Slack call, or the
\* failure it threw
inviteToChannel(channelId, userIds, throws) ==
    IF throws
    THEN [success |-> FALSE, error |-> "user_not_found"]
    ELSE [success |-> TRUE, channelId |-> channelId, invitedUsers |-> userIds,
          message |-> << "Successfully invited", Cardinality(userIds) >>]

InitComposite ==
    /\ Idle
    /\ pc = "create"
    /\ history = << >>
    /\ functionResults = << >>
    /\ call = [input |-> NoCall, result |-> NoResult]
    /\ invocation = NoInvocation
    /\ botUserId = "" /\ posted = 0 /\ inbox = {} /\ runs = << >>
    /\ thinking = 0 /\ awaiting = {}
    /\ reference = NoReference
    /\ ApiIdle
    /\ slackApi = NoSlackApiCall
    /\ formatting = NoFormatting
    /\ markdown = NoMarkdown
    /\ ContextsIdle
    /\ ThreadIdle
    /\ \E name \in ChannelNames, userIds \in SUBSET InvitedUsers,
          isPrivate, createThrows, inviteThrows \in BOOLEAN :
          composite = [NoComposite EXCEPT !.name = name, !.userIds = userIds,
                                          !.isPrivate = isPrivate,
                                          !.createThrows = createThrows,
                                          !.inviteThrows = inviteThrows]

CompositeRest ==
    UNCHANGED << runVars, argVars, eventVars, pairVars, apiVars, slackApiVars,
                 formatVars, markdownVars, contextVars, threadVars >>

\* const createResult = await createChannel(name, isPrivate); a failure is
\* returned as it is
CreateStep ==
    /\ pc = "create"
    /\ LET createResult == createChannel(composite.name, composite.isPrivate,
                                         composite.createThrows)
       IN IF ~createResult.success
          THEN /\ composite' = [composite EXCEPT !.createResult = createResult,
                                                 !.returned = createResult]
               /\ pc' = "returned"
          ELSE /\ composite' = [composite EXCEPT !.createResult = createResult]
               /\ pc' = "invite"
    /\ CompositeRest

\* const inviteResult = await inviteToChannel(channelId, userIds), and the
\* return statement that follows it
InviteStep ==
    /\ pc = "invite"
    /\ LET channelId == composite.createResult.channelId
           inviteResult == inviteToChannel(channelId, composite.userIds,
                                           composite.inviteThrows)
       IN composite' =
             [composite EXCEPT
                 !.inviteResult = inviteResult,
                 !.invitations = @ + 1,
                 !.returned = [success |-> TRUE, channelId |-> channelId,
                               channelName |-> composite.createResult.channelName,
                               invitedUsers |-> composite.userIds,
                               message |-> << "Successfully created and invited",
                                              composite.createResult.channelName,
                                              Cardinality(composite.userIds) >>]]
    /\ pc' = "returned"
    /\ CompositeRest

NextComposite == CreateStep \/ InviteStep

SpecComposite == InitComposite /\ [][NextComposite]_vars

----------------------------------------------------------------------------
(* Properties *)

IsPrefix(a, b) == Len(a) <= Len(b) /\ \A i \in 1..Len(a) : a[i] = b[i]

Occurrences(s, x) == Cardinality({ i \in 1..Len(s) : s[i] = x })

\* number of dispatched calls whose result has been pushed
Completed == IF path = "slack" THEN Len(results) ELSE Len(functionResults)

ResultAt(i) == IF path = "slack" THEN results[i].result ELSE functionResults[i].result

NameAt(i) == IF path = "slack" THEN results[i].name ELSE functionResults[i].name

\* C1: every run stops after at most FollowUpRoundCap follow-up model rounds,
\* whatever the model answers (here: createChannel in every round).
C1_FollowUpRoundsCapped == followUps <= FollowUpRoundCap

\* C2: the calls of a response are dispatched one at a time in the order the
\* model returned them (the next one only after the previous result), and a
\* failed call does not stop the calls after it, on the Slack and the API path.
C2_OrderedSequentialDispatch ==
    /\ IsPrefix(dispatched, issued)
    /\ Len(dispatched) = Completed + (IF pending = NoCall THEN 0 ELSE 1)
    /\ (pc \in { "awaitFollowUp", "done" } => dispatched = issued)

C2_FailedCallFollowedByNext ==
    /\ pc = "done"
    /\ path = "slack"
    /\ Len(batch) = 2
    /\ Len(dispatched) = 2
    /\ threw = << TRUE, FALSE >>

C4_UnknownNameYieldsFailure ==
    (pc = "returned" /\ call.input.name \notin ExportedActions) =>
        /\ call.result.kind = "result"
        /\ ~call.result.success
        /\ call.result.error # << >>

\* C5: within one run no function call issued by the model is dispatched
\* twice, neither when the loop recurses into a follow-up round nor when the
\* continuation fails.
C5_DispatchedAtMostOnce ==
    /\ \A i, j \in 1..Len(dispatched) : dispatched[i] = dispatched[j] => i = j
    /\ Range(dispatched) \subseteq Range(issued)

C5_RecursedThenContinuationFailed ==
    /\ pc = "done"
    /\ failedRound = 3
    /\ Len(dispatched) = 2

FirstRoundIds == SelectSeq(issued, LAMBDA id : id[1] = 1)

\* the first response was the single call createChannel, it succeeded, and
\* the user text is "create a channel called launch-prep"
CreateChannelOnly ==
    /\ path = "slack"
    /\ LastUserMessage(history) = TextCreate
    /\ Len(FirstRoundIds) = 1
    /\ Len(results) >= 1
    /\ results[1].name = "createChannel"
    /\ results[1].result.success

\* C7 as stated: for a text without continuation cue and a single successful
\* createChannel the predicate answers stop, so no follow-up model call is
\* issued, and the reply holds the confirmation exactly once.
C7_NoFollowUpAfterCreateChannel ==
    CreateChannelOnly =>
        /\ followUps = 0
        /\ (pc = "done" => Occurrences(reply, ActionMessage("createChannel")) = 1)

\* C7 amended: for that text and a single successful createChannel the
\* predicate answers continue, so a follow-up model call is issued; when the
\* follow-up issues no further call, exactly one follow-up call was made and
\* the reply holds the channel-created confirmation exactly once.
C7_FollowUpAfterCreateChannel ==
    (CreateChannelOnly /\ pc = "done") =>
        /\ followUps >= 1
        /\ decision # "none"
        /\ (Len(dispatched) = 1 =>
              /\ followUps = 1
              /\ decision = "continue"
              /\ Occurrences(reply, ActionMessage("createChannel")) = 1)

C7_CreateChannelThenEmptyFollowUp ==
    /\ CreateChannelOnly
    /\ pc = "done"
    /\ Len(dispatched) = 1
    /\ followUps = 1
    /\ failedRound = 0

\* the follow-up model call after a first round that was one createChannel,
\* for the text "create a channel called launch-prep and invite U1, U2"
InviteFollowUp ==
    /\ path = "slack"
    /\ pc = "awaitFollowUp"
    /\ round = 1
    /\ LastUserMessage(history) = TextCreateInvite
    /\ Len(functionResults) = 1
    /\ functionResults[1].name = "createChannel"

\* C8 as stated: in that follow-up round the functions offered to the model
\* are exactly {inviteToChannel}.
C8_OnlyInviteOffered == InviteFollowUp => Range(offered) = { "inviteToChannel" }

\* C8 amended: in that follow-up round the functions offered to the model are
\* exactly inviteToChannel and sendMessage.
C8_InviteAndSendOffered ==
    InviteFollowUp => offered = << "inviteToChannel", "sendMessage" >>

C8_FollowUpAfterCreatedChannel ==
    /\ InviteFollowUp
    /\ functionResults[1].result.success

\* a continuation cue as the claim lists them
ClaimCue(text) ==
    \/ Includes(text, "then")
    \/ Includes(text, "after")
    \/ Includes(text, "create") /\ Includes(text, "invite")
    \/ Includes(text, "summary") /\ Includes(text, "meeting")

FirstStepFunctions ==
    { "searchChannels", "createChannel", "inviteToChannel", "createChannelAndInviteUsers" }

\* C9 as stated: shouldContinueWorkflow answers continue whenever the user
\* text carries a continuation cue, whatever the last function is, and also
\* when the last function is the first step of a known pattern.
C9_CueOrFirstStepContinues ==
    pc = "evaluated" =>
        ((\/ ClaimCue(LastUserMessage(history))
          \/ Last(functionResults).name \in FirstStepFunctions)
            => decision = "continue")

\* C9 amended: shouldContinueWorkflow answers continue exactly when the last
\* dispatched function is the first step of a known pattern (searchChannels,
\* createChannel, inviteToChannel, createChannelAndInviteUsers), whatever the
\* user text; for any other function it answers stop even with a cue.
C9_ContinuesIffFirstStep ==
    pc = "evaluated" =>
        (decision = "continue" <=> Last(functionResults).name \in FirstStepFunctions)

C9_CueButStop ==
    /\ pc = "evaluated"
    /\ Last(functionResults).name = "sendMessage"
    /\ ClaimCue(LastUserMessage(history))
    /\ decision = "stop"

\* C10: a first response without function calls ends the run at once: nothing
\* is dispatched, no follow-up model call is made, and the reply is the
\* model's content.
C10_NoCallsGoesToDone ==
    (round >= 1 /\ issued = << >>) =>
        /\ pc = "done"
        /\ dispatched = << >>
        /\ followUps = 0
        /\ providerCalls = 1
        /\ (path = "slack" => reply = << << aiContent >> >>)
        /\ (path = "api" => apiResponse = ApiOk(aiContent, << >>))

C10_ConversationalReply ==
    /\ pc = "done"
    /\ issued = << >>
    /\ path = "slack"
    /\ aiContent = "All set."
    /\ reply = << << "All set." >> >>

\* the paragraph of the reply reports the failure of the result
ReportsFailure(paragraph, result) ==
    /\ result.error # << >>
    /\ Range(result.error) \subseteq Range(paragraph)

\* positions of the results whose handler returned {success: false, error}
FailedResults ==
    { i \in 1..Len(results) :
        results[i].result.kind = "result" /\ ~results[i].result.success }

SucceededResults ==
    { i \in 1..Len(results) :
        results[i].result.kind = "result" /\ results[i].result.success }

\* C11: when a handler returned a failure result and other calls of the run
\* succeeded, the reply of the Slack path holds a line reporting the failure
\* (its error) next to the confirmations of the calls that succeeded.
C11_FailureReportedInReply ==
    (pc = "done" /\ path = "slack" /\ SucceededResults # {}) =>
        \A i \in FailedResults :
            \E j \in 1..Len(reply) : ReportsFailure(reply[j], results[i].result)

\* the entry of the reply the claim describes for one dispatched call
ReplyEntry(entry) ==
    IF entry.result.message # << >> THEN entry.result.message
    ELSE << "I've successfully completed the ", entry.name, " action." >>

\* the model's content is appended
ContentAppended == aiContent # "" /\ aiContent # PlaceholderContent

\* C12: the reply lists one entry per dispatched call in dispatch order over
\* all rounds: the message of the result when present, else the generic
\* completion sentence naming the function; the model's content follows them
\* only when it is non-empty and not the placeholder sentence.
C12_OneEntryPerDispatchedCall ==
    (pc = "done" /\ path = "slack" /\ Len(dispatched) > 0) =>
        /\ Len(reply) = Len(dispatched) + (IF ContentAppended THEN 1 ELSE 0)
        /\ \A i \in 1..Len(dispatched) : reply[i] = ReplyEntry(results[i])
        /\ (ContentAppended => Last(reply) = << aiContent >>)

\* C13: every follow-up model call offers at most 3 functions, and they are
\* never just the first entries of the whole catalog.
C13_AtMostThreeMappedFunctions ==
    pc = "awaitFollowUp" =>
        /\ Len(offered) <= 3
        /\ offered # Slice(AVAILABLE_FUNCTIONS, 3)

\* C14: every argument of a function call reaches the handler parameter of
\* the same name, whatever the key order of the arguments object and whichever
\* optional arguments are left out.
C14_ArgumentsBoundByName ==
    pc = "invoked" =>
        \A i \in 1..Len(invocation.arguments) :
            \E j \in 1..Len(invocation.received) :
                /\ invocation.received[j].parameter = invocation.arguments[i].key
                /\ invocation.received[j].value = invocation.arguments[i].value

\* runs started for the message posted as number ts
RunsFor(ts) == { i \in 1..Len(runs) : runs[i].ts = ts }

\* C15: every posted user message starts at most one orchestration run, is
\* answered by at most one first model call and has its requested action
\* dispatched at most once, also when it mentions the bot in a channel.
C15_OneRunPerMessage ==
    pc = "listening" =>
        /\ \A ts \in 1..posted : Cardinality(RunsFor(ts)) <= 1
        /\ providerCalls <= posted
        /\ \A i, j \in 1..Len(dispatched) : dispatched[i] = dispatched[j] => i = j

\* C16: for the same instruction text and the same model behaviour the API
\* path dispatches the same sequence of function calls as the Slack path did,
\* the calls of the follow-up rounds included.
C16_ApiDispatchesLikeSlack ==
    (pc = "done" /\ path = "api" /\ reference # NoReference) =>
        DispatchedNames = reference.sequence

\* requests of one client counted in one rate-limit window
InWindow(ip, window) ==
    { i \in 1..Len(log) : log[i].ip = ip /\ log[i].window = window }

PassedBefore(i) ==
    Cardinality({ j \in InWindow(log[i].ip, log[i].window) : j < i /\ log[j].passed })

\* C17: per client IP and per window (from the request that opens it to its
\* resetTime, one window length later) at most API_RATE_LIMIT requests pass
\* checkRateLimit; a request passes exactly when fewer than API_RATE_LIMIT
\* passed before it in its window, every other one is answered 429
\* rate_limit_exceeded; a request belongs to a new window only when it
\* arrives after the resetTime of the previous one.
C17_RateLimitPerWindow ==
    /\ \A i \in 1..Len(log) :
          /\ Cardinality({ j \in InWindow(log[i].ip, log[i].window) : log[j].passed })
                <= API_RATE_LIMIT
          /\ log[i].passed <=> PassedBefore(i) < API_RATE_LIMIT
          /\ log[i].at <= log[i].window
          /\ log[i].window <= log[i].at + WindowLength
    /\ \A i, j \in 1..Len(log) :
          (i < j /\ log[i].ip = log[j].ip) =>
              \/ log[j].window = log[i].window
              \/ log[j].at > log[i].window
    /\ \A j \in 1..Len(log) :
          \/ log[j].window = log[j].at + WindowLength
          \/ \E i \in 1..(j - 1) :
                log[i].ip = log[j].ip /\ log[i].window = log[j].window
    /\ (request.reached /\ ~Last(log).passed) =>
          /\ pc = "answered"
          /\ apiResponse = ApiError(429, "rate_limit_exceeded")

C17_RejectedThenNewWindow ==
    /\ Len(log) = API_RATE_LIMIT + 2
    /\ \A i \in 1..Len(log) : log[i].ip = "10.0.0.1"
    /\ \A i \in 1..API_RATE_LIMIT : log[i].passed
    /\ ~log[API_RATE_LIMIT + 1].passed
    /\ log[API_RATE_LIMIT + 2].passed
    /\ log[API_RATE_LIMIT + 2].window > log[1].window

\* the status the precedence of checks prescribes for the request
ExpectedStatus ==
    IF ~enabled THEN 403
    ELSE IF request.key # API_KEY THEN 401
    ELSE IF request.passedBefore >= API_RATE_LIMIT THEN 429
    ELSE IF ~request.hasMessage THEN 400
    ELSE IF providerFailures > 0 THEN 500
    ELSE 200

ExpectedCode ==
    IF ExpectedStatus = 403 THEN "api_disabled"
    ELSE IF ExpectedStatus = 401 THEN "authentication_failed"
    ELSE IF ExpectedStatus = 429 THEN "rate_limit_exceeded"
    ELSE IF ExpectedStatus = 400 THEN "missing_required_field"
    ELSE IF ExpectedStatus = 500 THEN "internal_error"
    ELSE ""

\* C18: every request gets one response, none while it is being processed,
\* and its status follows the precedence 403 api_disabled, 401
\* authentication_failed, 429 rate_limit_exceeded, 400 missing_required_field,
\* then 500 internal_error when processing throws and 200 otherwise.
C18_StatusPrecedence ==
    /\ (pc \in { "awaitModel", "dispatch" } => apiResponse = NoApiResponse)
    /\ (pc \in { "answered", "done", "error" } =>
          /\ apiResponse.status = ExpectedStatus
          /\ apiResponse.code = ExpectedCode
          /\ apiResponse.success <=> apiResponse.status = 200
          /\ (pc = "answered" <=> apiResponse.status \in { 403, 401, 429, 400 })
          /\ (pc = "error" <=> apiResponse.status = 500)
          /\ (apiResponse.status \in { 403, 401, 429, 400 } =>
                providerCalls = 0 /\ dispatched = << >>))

C18_BadBodyOverLimit ==
    /\ pc = "answered"
    /\ request.key = API_KEY
    /\ ~request.hasMessage
    /\ request.passedBefore >= API_RATE_LIMIT
    /\ apiResponse.status = 429

\* the first attempt failed with the rate-limit error of the Slack platform
FirstAttemptRateLimited ==
    /\ slackApi.firstError.code = "slack_webapi_platform_error"
    /\ slackApi.firstError.dataError = "ratelimited"

\* C19: callSlackApi makes at most two attempts, the Bolt client first; the
\* WebAPI fallback is made once, exactly when the first attempt failed with a
\* rate-limit error, and after the retry-after delay has been waited; any
\* other first error is rethrown unchanged with no fallback; when the fallback
\* fails too, the caller gets a RateLimitError.
C19_AtMostOneFallback ==
    /\ slackApi.attempts \in { << >>, << "bolt" >>, << "bolt", "webapi" >> }
    /\ (Len(slackApi.attempts) = 2 =>
          /\ FirstAttemptRateLimited
          /\ slackApi.waited = ParseRetryAfter(slackApi.firstError.retryAfterHeader))
    /\ (pc \in { "apiReturned", "apiThrown" } =>
          /\ (FirstAttemptRateLimited <=> Len(slackApi.attempts) = 2)
          /\ (slackApi.firstError = NoError =>
                pc = "apiReturned" /\ slackApi.returned = "bolt result")
          /\ ((slackApi.firstError # NoError /\ ~FirstAttemptRateLimited) =>
                pc = "apiThrown" /\ slackApi.thrown = slackApi.firstError)
          /\ (FirstAttemptRateLimited =>
                IF slackApi.webApiError = NoError
                THEN pc = "apiReturned" /\ slackApi.returned = "webapi data"
                ELSE pc = "apiThrown" /\ slackApi.thrown.class = "RateLimitError"))

C19_FallbackFailedToo ==
    /\ pc = "apiThrown"
    /\ slackApi.attempts = << "bolt", "webapi" >>
    /\ slackApi.waited = 5
    /\ slackApi.webApiError = ExternalApiError
    /\ slackApi.thrown = RateLimitError

\* positions of the input at which a run of messages of one role begins
RunStarts(messages) ==
    SelectSeq([i \in 1..Len(messages) |-> i],
              LAMBDA i : i = 1 \/ messages[i].role # messages[i - 1].role)

\* C20: formatted for a model id that starts with "anthropic/", the output
\* has no two adjacent messages of the same role, and it has one message per
\* run of same-role input messages, with the role and the timestamp of the
\* first (earliest) message of that run.
C20_AnthropicAlternation ==
    (pc = "formatted" /\ StartsWith(formatting.modelId, "anthropic/")) =>
        LET input == formatting.messages
            output == formatting.output
            starts == RunStarts(input)
        IN /\ \A i \in 1..(Len(output) - 1) : output[i].role # output[i + 1].role
           /\ Len(output) = Len(starts)
           /\ \A k \in 1..Len(output) :
                 /\ output[k].role = input[starts[k]].role
                 /\ output[k].timestamp = input[starts[k]].timestamp

C20_MergedRun ==
    /\ pc = "formatted"
    /\ StartsWith(formatting.modelId, "anthropic/")
    /\ Len(formatting.messages) = 3
    /\ formatting.messages[1].role = "user"
    /\ formatting.messages[2].role = "user"
    /\ formatting.messages[3].role = "assistant"
    /\ Len(formatting.output) = 2
    /\ formatting.output[1].timestamp = 1
    /\ Len(formatting.output[1].content) = 3

\* strings the formatter adds: the separator of a merge, the system wrapping
AddedStrings == { "\n\n", "<system>\n", "\n</system>" }

\* number of characters of a string of the model
CharCount(str) ==
    IF str = "hello" THEN 5
    ELSE IF str = "done" THEN 4
    ELSE IF str = "\n\n" THEN 2
    ELSE IF str = "<system>\n" THEN 9
    ELSE 10

\* the content fields of a message list, one after the other
RECURSIVE AllContent(_)
AllContent(messages) ==
    IF messages = << >> THEN << >>
    ELSE messages[1].content \o AllContent(Tail(messages))

\* the message texts of a list, in order, without what the formatter added
TextsOf(messages) == SelectSeq(AllContent(messages), LAMBDA str : str \notin AddedStrings)

RECURSIVE SumChars(_)
SumChars(strs) ==
    IF strs = << >> THEN 0 ELSE CharCount(strs[1]) + SumChars(Tail(strs))

TotalChars(messages) == SumChars(AllContent(messages))

\* number of input messages merged into an earlier one for a target that
\* requires alternation
Merged(messages) == Len(messages) - Len(RunStarts(messages))

SystemMessages(messages) ==
    Cardinality({ i \in 1..Len(messages) : messages[i].role = "system" })

C22_OnlyMostRecentKept ==
    pc = "formatted" =>
        /\ Len(TextsOf(formatting.output)) <= MAX_CONVERSATION_MESSAGES
        /\ (MAX_CONVERSATION_MESSAGES = 0 => formatting.output = << >>)

\* C23: formatting its own output again returns that output, with no further
\* truncation, merging or rewrapping, and the call leaves the message objects of
\* its input list as they were.
C23_FormattingIdempotent ==
    /\ pc = "reformatted" => formatting.again = formatting.output
    /\ pc \in { "formatted", "reformatted" } => formatting.after = formatting.messages

\* two user messages merged for an anthropic/ model, formatted a second time
C23_MergedFormattedAgain ==
    /\ pc = "reformatted"
    /\ StartsWith(formatting.modelId, "anthropic/")
    /\ Len(formatting.messages) = 2
    /\ Len(formatting.output) = 1
    /\ Len(formatting.output[1].content) = 3
    /\ formatting.again = formatting.output
    /\ Len(formatting.after[1].content) = 1

\* C24: converting a converted text again changes nothing, and a text already
\* in Slack syntax, such as the bold *a*, is returned as it is.
C24_ConversionIdempotent ==
    /\ pc = "converted twice" => markdown.twice = markdown.once
    /\ (pc = "converted" /\ markdown.content = << "*", "a", "*" >>) =>
           markdown.once = markdown.content

\* C25: the Markdown bold **a** is returned as the Slack bold *a*, with single
\* asterisks and not as the italic _a_.
C25_BoldBecomesSingleAsterisks ==
    (pc = "converted" /\ markdown.content = << "*", "*", "a", "*", "*" >>) =>
        markdown.once = << "*", "a", "*" >>

\* C27: no run is started for a message the bot authored itself: whenever the
\* event of the thinking message of a user's run is handled, before auth.test
\* has answered or after it, the message handler ignores it.
C27_OwnMessagesIgnored ==
    \A i, j \in 1..Len(runs) :
        ~(runs[i].user = UserId /\ runs[j].ts = ThinkingEvent(i).ts)

\* C26: creating a conversation at full capacity evicts exactly one
\* conversation, one of the oldest lastActivityAt, getHistory of an evicted key
\* answers as for an unknown key, and the count never exceeds the capacity.
C26_EvictsOldestAtCapacity ==
    /\ [](/\ Count(contexts) <= MaxContexts
          /\ \A threadKey \in evictedKeys :
                getHistory(contexts, threadKey) = [found |-> FALSE, messages |-> << >>])
    /\ [][\A threadKey \in ThreadKeys :
            (threadKey \notin Live(contexts) /\ threadKey \in Live(contexts')) =>
                LET gone == Live(contexts) \ Live(contexts')
                IN IF Count(contexts) = MaxContexts
                   THEN /\ Cardinality(gone) = 1
                        /\ \A evicted \in gone, other \in Live(contexts) :
                              contexts[evicted].lastActivityAt
                                  <= contexts[other].lastActivityAt
                        /\ gone \subseteq evictedKeys'
                   ELSE gone = {}]_vars

\* the store is full again after an eviction, and the evicted key is unknown
C26_EvictedAtCapacity ==
    /\ Count(contexts) = MaxContexts
    /\ evictedKeys # {}
    /\ \E threadKey \in evictedKeys : ~getHistory(contexts, threadKey).found
    /\ \E threadKey \in Live(contexts) : Len(contexts[threadKey].messages) > 1

\* C28: each run on a thread sends the model at most two messages, the
\* thread's system message if any and one user message, and that user message
\* is the one the run itself appended, whatever the other runs appended.
C28_OwnTextSent ==
    \A r \in RunIds :
        flow[r].stage \in { "responding", "done" } =>
            LET sent == flow[r].sent
            IN /\ Len(sent) \in 1..2
               /\ sent[Len(sent)] = [role |-> "user", text |-> flow[r].text, by |-> r]
               /\ Len(sent) = 2 => sent[1].role = "system"

\* two runs were initialized before either appended its text, and both have
\* called the model
C28_InterleavedRuns ==
    /\ flow[1].stage = "responding"
    /\ flow[2].stage = "responding"
    /\ flow[1].text # flow[2].text
    /\ Len(thread) >= 3
    /\ thread[Len(thread)].by = 1
    /\ thread[Len(thread) - 1].by = 2

\* C30: createChannelAndInviteUsers returns success = true only if the creation
\* and the invitation both succeeded; after a failed creation no invitation is
\* attempted and the creation failure is returned.
C30_SuccessOnlyIfBothSucceeded ==
    pc = "returned" =>
        /\ composite.returned.success =>
              (composite.createResult.success /\ composite.inviteResult.success)
        /\ ~composite.createResult.success =>
              (composite.invitations = 0 /\ composite.returned = composite.createResult)

\* C29: in a follow-up round only functions of the subset offered to the model
\* in that round have their handler executed: a call naming a registered
\* function outside the subset is not dispatched.
C29_OnlyOfferedDispatched ==
    (pc = "dispatch" /\ round >= 2) =>
        \A i \in 1..idx :
            batch[i].name \in ExportedActions => batch[i].name \in Range(offered)

====
